---- MODULE Spec2Model ----
(***************************************************************************)
(* A model of bookops-marc: the streaming reader (SierraBibReader), the    *)
(* order extraction of Bib (orders, item_fields, sort_orders), the         *)
(* OclcNumber value object with its prefixed and unprefixed forms, the     *)
(* Dewey normalizer and shortener of local_values, and the catalogue       *)
(* properties of Bib (oclc_nos, normalize_oclc_control_number,             *)
(* remove_unsupported_subjects, dewey, dewey_shortened).                   *)
(*                                                                         *)
(* Bytes and characters are one-character strings; a byte string or a      *)
(* Python str is a sequence of them.  The three control bytes of ISO 2709  *)
(* are written "GS" (0x1D), "RS" (0x1E) and "US" (0x1F).                   *)
(***************************************************************************)
EXTENDS Integers, Sequences, FiniteSets, TLC

VARIABLES
    file,               \* reader: content of the byte source (file_handle)
    segs,               \* reader: the pieces the source was assembled from
    cursor,             \* reader: read position of file_handle
    current_chunk,      \* reader: SierraBibReader._current_chunk
    current_exception,  \* reader: SierraBibReader._current_exception
    log,                \* reader: what each call of __next__ handed to the caller
    library,            \* the library discriminator of the reader / of the Bib
    fields,             \* Bib.fields, the ordered field list of the record
    bib_leader,         \* Bib.leader, the leader of the record
    pos,                \* Bib.pos, the cursor shared by every iteration of the Bib
    call,               \* Bib: the last method called and its argument
    out,                \* Bib: what that call returned or raised
    oclc_arg,           \* OclcNumber: the value handed to the constructor
    oclc,               \* OclcNumber: the outcome of constructing and validating
    dewey_arg,          \* Dewey: the class mark handed to the normalizer
    dewey_out           \* Dewey: the last function applied and what it returned

vars == <<file, segs, cursor, current_chunk, current_exception, log, library,
          fields, bib_leader, pos, call, out, oclc_arg, oclc, dewey_arg, dewey_out>>

readerVars == <<file, segs, cursor, current_chunk, current_exception, log>>
bibVars == <<fields, bib_leader, pos, call, out>>
oclcVars == <<oclc_arg, oclc>>
deweyVars == <<dewey_arg, dewey_out>>

-----------------------------------------------------------------------------
(* Bounds *)

MaxRecords == 3     \* pieces concatenated into one byte source
MaxStops == 2       \* calls of __next__ made after end of stream was signalled

-----------------------------------------------------------------------------
(* Bytes, and Python's int() on a byte string *)

END_OF_RECORD == "GS"
END_OF_FIELD == "RS"
LEADER_LEN == 24

Digits == <<"0", "1", "2", "3", "4", "5", "6", "7", "8", "9">>

IsDigit(c) == \E i \in 1..10 : Digits[i] = c

DigitVal(c) == (CHOOSE i \in 1..10 : Digits[i] = c) - 1

IsSpace(c) == c \in {" ", "\t", "\n", "\r"}

RECURSIVE LStrip(_)
LStrip(s) == IF s # <<>> /\ IsSpace(Head(s)) THEN LStrip(Tail(s)) ELSE s

RECURSIVE RStrip(_)
RStrip(s) ==
    IF s # <<>> /\ IsSpace(s[Len(s)]) THEN RStrip(SubSeq(s, 1, Len(s) - 1)) ELSE s

\* the value of a digit string in which single underscores may separate digits
RECURSIVE DigitsValue(_, _)
DigitsValue(s, acc) ==
    IF s = <<>> THEN acc
    ELSE IF Head(s) = "_" THEN DigitsValue(Tail(s), acc)
    ELSE DigitsValue(Tail(s), 10 * acc + DigitVal(Head(s)))

\* int(b): surrounding whitespace, one optional sign, digits
PyInt(b) ==
    LET t == RStrip(LStrip(b))
        signed == t # <<>> /\ t[1] \in {"+", "-"}
        body == IF signed THEN Tail(t) ELSE t
        wellFormed ==
            /\ body # <<>>
            /\ \A i \in 1..Len(body) : IsDigit(body[i]) \/ body[i] = "_"
            /\ IsDigit(body[1]) /\ IsDigit(body[Len(body)])
            /\ \A i \in 1..(Len(body) - 1) : ~(body[i] = "_" /\ body[i + 1] = "_")
    IN  IF ~wellFormed THEN [ok |-> FALSE, val |-> 0]
        ELSE [ok |-> TRUE,
              val |-> IF signed /\ t[1] = "-" THEN 0 - DigitsValue(body, 0)
                      ELSE DigitsValue(body, 0)]

\* read(n) that stops one byte short of the n bytes asked for
ReadShort(fh, p, n) ==
    IF n < 0 THEN SubSeq(fh, p + 1, Len(fh))
    ELSE SubSeq(fh, p + 1, IF p + n - 1 < Len(fh) THEN p + n - 1 ELSE Len(fh))

\* file_handle.read(n) at position p: up to n bytes, everything left when n < 0
Read(fh, p, n) ==
    IF n < 0 THEN SubSeq(fh, p + 1, Len(fh))
    ELSE SubSeq(fh, p + 1, IF p + n < Len(fh) THEN p + n ELSE Len(fh))

\* b[a:z] of Python for 0 <= a and 0 <= z
PySlice(s, a, z) ==
    LET hi == IF z < Len(s) THEN z ELSE Len(s)
    IN  IF a + 1 > hi THEN <<>> ELSE SubSeq(s, a + 1, hi)

LowerCase == <<"a", "b", "c", "d", "e", "f", "g", "h", "i", "j", "k", "l", "m",
               "n", "o", "p", "q", "r", "s", "t", "u", "v", "w", "x", "y", "z">>

UpperCase == <<"A", "B", "C", "D", "E", "F", "G", "H", "I", "J", "K", "L", "M",
               "N", "O", "P", "Q", "R", "S", "T", "U", "V", "W", "X", "Y", "Z">>

LowerChar(c) ==
    IF \E i \in 1..26 : UpperCase[i] = c
    THEN LowerCase[CHOOSE i \in 1..26 : UpperCase[i] = c]
    ELSE c

\* str.lower()
Lower(s) == [i \in 1..Len(s) |-> LowerChar(s[i])]

-----------------------------------------------------------------------------
(* Python values handed to the library *)

StrVal(s) == [type |-> "str", s |-> s, n |-> 0]
IntVal(n) == [type |-> "int", s |-> <<>>, n |-> n]
PyNone == [type |-> "NoneType", s |-> <<>>, n |-> 0]
PyList == [type |-> "list", s |-> <<>>, n |-> 0]

\* an Optional[str]
None == [isNone |-> TRUE, s |-> <<>>]
Some(s) == [isNone |-> FALSE, s |-> s]

\* a in b, for two str
IsSubstring(a, b) ==
    \E k \in 0..(Len(b) - Len(a)) : SubSeq(b, k + 1, k + Len(a)) = a

Reverse(s) == [i \in 1..Len(s) |-> s[Len(s) + 1 - i]]

-----------------------------------------------------------------------------
(* The byte sources the reader is run over *)

\* n as five decimal digits
Digits5(n) ==
    <<Digits[((n \div 10000) % 10) + 1], Digits[((n \div 1000) % 10) + 1],
      Digits[((n \div 100) % 10) + 1], Digits[((n \div 10) % 10) + 1],
      Digits[(n % 10) + 1]>>

\* a 24 byte leader: record length, "nam a22", base address of data, " i 4500"
Leader(len5, base5) ==
    len5 \o <<"n", "a", "m", " ", "a", "2", "2">> \o base5
         \o <<" ", "i", " ", "4", "5", "0", "0">>

\* the directory of a record with the single control field 001 of two bytes
Directory001 == <<"0", "0", "1", "0", "0", "0", "2", "0", "0", "0", "0", "0">>

\* a complete record of 40 bytes whose field 001 holds the byte d
MarcRecord(base5, d) ==
    Leader(Digits5(40), base5) \o Directory001
        \o <<END_OF_FIELD, d, END_OF_FIELD, END_OF_RECORD>>

SegNames ==
    {"goodA", "goodB", "badLeader", "cut", "badPrefix", "noTerm", "shortTail",
     "negLen", "padLen"}

SegBytes(name) ==
    CASE name = "goodA" -> MarcRecord(Digits5(37), "a")
      [] name = "goodB" -> MarcRecord(Digits5(37), "b")
      \* framed correctly, base address of the leader unreadable ("00-73")
      [] name = "badLeader" -> MarcRecord(<<"0", "0", "-", "7", "3">>, "a")
      \* a record whose last ten bytes are missing
      [] name = "cut" -> SubSeq(MarcRecord(Digits5(37), "a"), 1, 30)
      [] name = "badPrefix" -> <<"p", "a", "m", " ", "a", "2", "2">>
      [] name = "noTerm" -> <<"0", "0", "0", "0", "6", " ">>
      [] name = "shortTail" -> <<"0", "1", "2", "3">>
      [] name = "negLen" -> <<"-", "0", "0", "0", "1", "x">>
      [] name = "padLen" -> <<" ", "0", "_", "6", " ", END_OF_RECORD>>

WellFormedSegs == {"goodA", "goodB"}

RECURSIVE Concat(_)
Concat(names) ==
    IF names = <<>> THEN <<>> ELSE SegBytes(Head(names)) \o Concat(Tail(names))

Streams == UNION {[1..n -> SegNames] : n \in 0..MaxRecords}

BPL == <<"b", "p", "l">>
NYPL == <<"n", "y", "p", "l">>

-----------------------------------------------------------------------------
(* Bib(data, library): pymarc's Record.decode_marc, then library.lower() *)

\* the exception decoding raises, "ok" when it raises none
DecodeMarc(marc) ==
    LET leader == PySlice(marc, 0, LEADER_LEN)
        base == PyInt(PySlice(marc, 12, 17))
        directory == PySlice(marc, LEADER_LEN, base.val - 1)
        entries == Len(directory) \div 12
        Entry(k) == PySlice(directory, 12 * (k - 1), 12 * k)
    IN  IF Len(leader) # LEADER_LEN THEN "RecordLeaderInvalid"
        ELSE IF ~base.ok THEN "ValueError"
        ELSE IF base.val <= 0 THEN "BaseAddressNotFound"
        ELSE IF base.val >= Len(marc) THEN "BaseAddressInvalid"
        ELSE IF Len(marc) < PyInt(PySlice(leader, 0, 5)).val THEN "TruncatedRecord"
        ELSE IF Len(directory) % 12 # 0 THEN "RecordDirectoryInvalid"
        ELSE IF \E k \in 1..entries :
                    \/ ~PyInt(PySlice(Entry(k), 3, 7)).ok
                    \/ ~PyInt(PySlice(Entry(k), 7, 12)).ok THEN "ValueError"
        ELSE IF entries = 0 THEN "NoFieldsFound"
        ELSE "ok"

NoBib == [data |-> <<>>, library |-> <<>>]

\* Bib.__init__
NewBib(data, lib) == [data |-> data, library |-> Lower(lib)]

-----------------------------------------------------------------------------
(* SierraBibReader *)

\* as if every exception stored in the error slot ended the iteration
FatalReaderErorAny ==
    {"TruncatedRecord", "RecordLengthInvalid", "EndOfRecordNotFound", "ValueError",
     "RecordLeaderInvalid", "BaseAddressNotFound", "BaseAddressInvalid",
     "RecordDirectoryInvalid", "NoFieldsFound"}

\* as if no exception stored in the error slot ended the iteration
FatalReaderErorNone == {}

\* the subclasses of pymarc's FatalReaderEror
FatalReaderEror == {"TruncatedRecord", "RecordLengthInvalid", "EndOfRecordNotFound"}

NoChunk == [isNone |-> TRUE, bytes |-> <<>>]
Chunk(b) == [isNone |-> FALSE, bytes |-> b]

\* what one call of __next__ did: ret is "Bib", "None" or "StopIteration", exc
\* and chunk are the error slot and the chunk it leaves, p the read position,
\* and parsed tells whether the chunk was handed to Bib
Outcome(ret, bib, exc, chunk, p, parsed) ==
    [ret |-> ret, bib |-> bib, exc |-> exc, chunk |-> chunk, cursor |-> p,
     parsed |-> parsed]

\* __next__ without the reset of the error slot of line 45
DunderNextKeepsError(fh, p, chunk0, exc0, lib) ==
    IF exc0 \in FatalReaderEror
    THEN Outcome("StopIteration", NoBib, exc0, chunk0, p, FALSE)
    ELSE
      LET first5 == Read(fh, p, 5)
          p5 == p + Len(first5)
          length == PyInt(first5)
          rest == Read(fh, p5, length.val - 5)
          chunk == first5 \o rest
          pEnd == p5 + Len(rest)
          raised == DecodeMarc(chunk)
      IN  IF first5 = <<>>
          THEN Outcome("StopIteration", NoBib, exc0, Chunk(first5), p5, FALSE)
          ELSE IF Len(first5) < 5
          THEN Outcome("None", NoBib, "TruncatedRecord", Chunk(first5), p5, FALSE)
          ELSE IF ~length.ok
          THEN Outcome("None", NoBib, "RecordLengthInvalid", Chunk(first5), p5, FALSE)
          ELSE IF Len(chunk) < length.val
          THEN Outcome("None", NoBib, "TruncatedRecord", Chunk(chunk), pEnd, FALSE)
          ELSE IF chunk[Len(chunk)] # END_OF_RECORD
          THEN Outcome("None", NoBib, "EndOfRecordNotFound", Chunk(chunk), pEnd, FALSE)
          ELSE IF raised = "ok"
          THEN Outcome("Bib", NewBib(chunk, lib), exc0, Chunk(chunk), pEnd, TRUE)
          ELSE Outcome("None", NoBib, raised, Chunk(chunk), pEnd, TRUE)

\* __next__ with the terminator looked at before the length of the chunk
DunderNextTerminatorFirst(fh, p, chunk0, exc0, lib) ==
    IF exc0 \in FatalReaderEror
    THEN Outcome("StopIteration", NoBib, exc0, chunk0, p, FALSE)
    ELSE
      LET first5 == Read(fh, p, 5)
          p5 == p + Len(first5)
          length == PyInt(first5)
          rest == Read(fh, p5, length.val - 5)
          chunk == first5 \o rest
          pEnd == p5 + Len(rest)
          raised == DecodeMarc(chunk)
      IN  IF first5 = <<>>
          THEN Outcome("StopIteration", NoBib, "None", Chunk(first5), p5, FALSE)
          ELSE IF Len(first5) < 5
          THEN Outcome("None", NoBib, "TruncatedRecord", Chunk(first5), p5, FALSE)
          ELSE IF ~length.ok
          THEN Outcome("None", NoBib, "RecordLengthInvalid", Chunk(first5), p5, FALSE)
          ELSE IF chunk[Len(chunk)] # END_OF_RECORD
          THEN Outcome("None", NoBib, "EndOfRecordNotFound", Chunk(chunk), pEnd, FALSE)
          ELSE IF Len(chunk) < length.val
          THEN Outcome("None", NoBib, "TruncatedRecord", Chunk(chunk), pEnd, FALSE)
          ELSE IF raised = "ok"
          THEN Outcome("Bib", NewBib(chunk, lib), "None", Chunk(chunk), pEnd, TRUE)
          ELSE Outcome("None", NoBib, raised, Chunk(chunk), pEnd, TRUE)

\* __next__ without the test for the exhausted source of lines 48-49
DunderNextWithoutEndTest(fh, p, chunk0, exc0, lib) ==
    IF exc0 \in FatalReaderEror
    THEN Outcome("StopIteration", NoBib, exc0, chunk0, p, FALSE)
    ELSE
      LET first5 == Read(fh, p, 5)
          p5 == p + Len(first5)
          length == PyInt(first5)
          rest == Read(fh, p5, length.val - 5)
          chunk == first5 \o rest
          pEnd == p5 + Len(rest)
          raised == DecodeMarc(chunk)
      IN  IF Len(first5) < 5
          THEN Outcome("None", NoBib, "TruncatedRecord", Chunk(first5), p5, FALSE)
          ELSE IF ~length.ok
          THEN Outcome("None", NoBib, "RecordLengthInvalid", Chunk(first5), p5, FALSE)
          ELSE IF Len(chunk) < length.val
          THEN Outcome("None", NoBib, "TruncatedRecord", Chunk(chunk), pEnd, FALSE)
          ELSE IF chunk[Len(chunk)] # END_OF_RECORD
          THEN Outcome("None", NoBib, "EndOfRecordNotFound", Chunk(chunk), pEnd, FALSE)
          ELSE IF raised = "ok"
          THEN Outcome("Bib", NewBib(chunk, lib), "None", Chunk(chunk), pEnd, TRUE)
          ELSE Outcome("None", NoBib, raised, Chunk(chunk), pEnd, TRUE)

\* SierraBibReader.__next__ on source fh at position p
DunderNext(fh, p, chunk0, exc0, lib) ==
    IF exc0 \in FatalReaderEror
    THEN Outcome("StopIteration", NoBib, exc0, chunk0, p, FALSE)
    ELSE
      LET first5 == Read(fh, p, 5)
          p5 == p + Len(first5)
          length == PyInt(first5)
          rest == Read(fh, p5, length.val - 5)
          chunk == first5 \o rest
          pEnd == p5 + Len(rest)
          raised == DecodeMarc(chunk)
      IN  IF first5 = <<>>
          THEN Outcome("StopIteration", NoBib, "None", Chunk(first5), p5, FALSE)
          ELSE IF Len(first5) < 5
          THEN Outcome("None", NoBib, "TruncatedRecord", Chunk(first5), p5, FALSE)
          ELSE IF ~length.ok
          THEN Outcome("None", NoBib, "RecordLengthInvalid", Chunk(first5), p5, FALSE)
          ELSE IF Len(chunk) < length.val
          THEN Outcome("None", NoBib, "TruncatedRecord", Chunk(chunk), pEnd, FALSE)
          ELSE IF chunk[Len(chunk)] # END_OF_RECORD
          THEN Outcome("None", NoBib, "EndOfRecordNotFound", Chunk(chunk), pEnd, FALSE)
          ELSE IF raised = "ok"
          THEN Outcome("Bib", NewBib(chunk, lib), "None", Chunk(chunk), pEnd, TRUE)
          ELSE Outcome("None", NoBib, raised, Chunk(chunk), pEnd, TRUE)

NumStops(l) == Cardinality({i \in 1..Len(l) : l[i].ret = "StopIteration"})

\* the state of every variable the reader does not use
BibIdle ==
    /\ fields = <<>> /\ bib_leader = <<>> /\ pos = 0
    /\ call = [op |-> "none", arg |-> PyNone]
    /\ out = [raised |-> "None", value |-> <<>>]

OclcIdle ==
    /\ oclc_arg = PyNone
    /\ oclc = [op |-> "none", raised |-> "None", value |-> <<>>, valid |-> FALSE]

DeweyIdle ==
    /\ dewey_arg = PyNone
    /\ dewey_out = [op |-> "none", value |-> None, digits |-> 0]

\* SierraBibReader(marc_target, library): nothing read, no chunk, no error
Init ==
    /\ segs \in Streams
    /\ file = Concat(segs)
    /\ cursor = 0
    /\ current_chunk = NoChunk
    /\ current_exception = "None"
    /\ log = <<>>
    /\ library \in {NYPL, <<"B", "P", "L">>}
    /\ BibIdle
    /\ OclcIdle
    /\ DeweyIdle

\* next(reader)
ReaderNext ==
    /\ NumStops(log) < MaxStops
    /\ LET o == DunderNext(file, cursor, current_chunk, current_exception, library)
       IN  /\ cursor' = o.cursor
           /\ current_chunk' = o.chunk
           /\ current_exception' = o.exc
           /\ log' = Append(log, [ret |-> o.ret, bib |-> o.bib, exc |-> o.exc,
                                  chunk |-> o.chunk, from |-> cursor,
                                  to |-> o.cursor, parsed |-> o.parsed])
    /\ UNCHANGED <<file, segs, library, bibVars, oclcVars, deweyVars>>

Next == ReaderNext

Spec == Init /\ [][Next]_vars

\* the iteration of "for bib in reader": __next__ is called again until it
\* signals end of stream.  This is weak fairness of the step, WF_vars(ReaderNext),
\* with ENABLED <<ReaderNext>>_vars written out as the guard of ReaderNext:
\* every other conjunct of the action is defined in every state and the step
\* always lengthens log.
FairSpec ==
    Spec /\ ([]<>(NumStops(log) >= MaxStops) \/ []<><<ReaderNext>>_vars)

-----------------------------------------------------------------------------
(* Bib: the fields of a record, item_fields, orders, sort_orders *)

MaxFields == 3      \* fields of a record

\* the leader of the record the tests build their Bib from
StubLeader ==
    <<"0", "2", "8", "6", "6", "p", "a", "m", " ", " ", "2", "2", "0", "0", "5", "1", "7",
      " ", "i", " ", "4", "5", "0", "0">>

\* a variable field of pymarc: tag, the two indicators, (code, value) subfields
Field(tag, ind1, ind2, subs) == [tag |-> tag, ind1 |-> ind1, ind2 |-> ind2, subs |-> subs]

OverDriveInc ==
    <<"O", "v", "e", "r", "D", "r", "i", "v", "e", ",", " ", "I", "n", "c", ".">>

FieldKinds ==
    { Field("960", " ", " ", << <<"z", <<".", "o", "1", "0", "0", "0", "0", "0", "1", "0">> >> >>),
      Field("960", " ", " ", << <<"z", <<".", "o", "1", "0", "0", "0", "0", "0", "2", "0">> >> >>),
      Field("961", " ", " ", << <<"h", <<"e", ",", "b", "i", "o">> >>,
                                <<"l", <<"1", "6", "4", "3">> >> >>),
      Field("961", " ", " ", << <<"l", <<"1", "6", "4", "3">> >> >>),
      Field("949", " ", "1", << <<"i", <<"3", "3", "3">> >> >>),
      Field("037", " ", " ", << <<"a", <<"A", "B", "1">> >>, <<"b", OverDriveInc>> >>),
      Field("245", "1", "0", << <<"a", <<"F", "o", "o">> >> >>) }

Records == UNION {[1..n -> FieldKinds] : n \in 0..MaxFields}

\* Field.get(code): the value of the first subfield with that code, else None
Get(field, code) ==
    IF \E k \in 1..Len(field.subs) : field.subs[k][1] = code
    THEN Some(field.subs[CHOOSE k \in 1..Len(field.subs) :
                            /\ field.subs[k][1] = code
                            /\ \A j \in 1..(k - 1) : field.subs[j][1] # code][2])
    ELSE None

\* Record.get(tag): the place of the first field with that tag, 0 when none
First(flds, tag) ==
    IF \E i \in 1..Len(flds) : flds[i].tag = tag
    THEN CHOOSE i \in 1..Len(flds) :
             flds[i].tag = tag /\ \A j \in 1..(i - 1) : flds[j].tag # tag
    ELSE 0

\* Bib.overdrive_number
overdrive_number(flds) ==
    LET f == First(flds, "037")
    IN  IF f = 0 THEN None
        ELSE IF ~Get(flds[f], "a").isNone /\ Get(flds[f], "b") = Some(OverDriveInc)
        THEN Some(RStrip(LStrip(Get(flds[f], "a").s)))
        ELSE None

\* the body of "for field in self" in Bib.item_fields, the cursor of the Bib
\* being p; a field is given by its place in Bib.fields
RECURSIVE ItemFieldsLoop(_, _, _, _)
ItemFieldsLoop(flds, lib, p, found) ==
    IF p >= Len(flds) THEN [value |-> found, pos |-> p]
    ELSE
      LET here == p + 1
          field == flds[here]
      IN  IF field.tag = "949" /\ field.ind1 = " " /\ field.ind2 = "1"
          THEN ItemFieldsLoop(flds, lib, here, Append(found, here))
          ELSE IF /\ field.tag = "960"
                  /\ lib = BPL
                  /\ overdrive_number(flds) = None
          THEN ItemFieldsLoop(flds, lib, here, Append(found, here))
          ELSE ItemFieldsLoop(flds, lib, here, found)

\* Bib.item_fields: "for field in self" restarts the cursor of the Bib at 0
item_fields(flds, lib) == ItemFieldsLoop(flds, lib, 0, <<>>)

\* Order(field, following_field), both given by their place, 0 for None
Order(field, following_field) == [field |-> field, following_field |-> following_field]

\* the loop of Bib.orders taking the field itself for the following field
RECURSIVE OrdersLoopOffByOne(_, _, _, _)
OrdersLoopOffByOne(flds, lib, p, orders) ==
    IF p >= Len(flds) THEN [value |-> orders, pos |-> p]
    ELSE
      LET here == p + 1
          following_field == here
          items == item_fields(flds, lib)
      IN  IF flds[here].tag # "960" THEN OrdersLoopOffByOne(flds, lib, here, orders)
          ELSE IF lib # BPL
          THEN OrdersLoopOffByOne(flds, lib, here,
                                  Append(orders, Order(here, following_field)))
          ELSE IF \E k \in 1..Len(items.value) : items.value[k] = here
          THEN OrdersLoopOffByOne(flds, lib, items.pos, orders)
          ELSE OrdersLoopOffByOne(flds, lib, items.pos,
                                  Append(orders, Order(here, following_field)))

\* the body of "for field in self" in Bib.orders, the cursor of the Bib being p
RECURSIVE OrdersLoop(_, _, _, _)
OrdersLoop(flds, lib, p, orders) ==
    IF p >= Len(flds) THEN [value |-> orders, pos |-> p]
    ELSE
      LET here == p + 1
          following_field == IF here + 1 <= Len(flds) THEN here + 1 ELSE 0
          items == item_fields(flds, lib)
      IN  IF flds[here].tag # "960" THEN OrdersLoop(flds, lib, here, orders)
          ELSE IF lib # BPL
          THEN OrdersLoop(flds, lib, here, Append(orders, Order(here, following_field)))
          ELSE IF \E k \in 1..Len(items.value) : items.value[k] = here
          THEN OrdersLoop(flds, lib, items.pos, orders)
          ELSE OrdersLoop(flds, lib, items.pos,
                          Append(orders, Order(here, following_field)))

\* Bib.orders
orders(flds, lib) == OrdersLoop(flds, lib, 0, <<>>)

\* Order.venNotes
venNotes(flds, order) ==
    IF order.following_field # 0 /\ flds[order.following_field].tag = "961"
    THEN Get(flds[order.following_field], "h")
    ELSE None

Ascending == <<"a", "s", "c", "e", "n", "d", "i", "n", "g">>
Descending == <<"d", "e", "s", "c", "e", "n", "d", "i", "n", "g">>

\* sort_orders reversing whatever the sort
sort_ordersReversing(flds, lib, p, sort) ==
    IF sort.type # "str" \/ ~IsSubstring(sort.s, Ascending \o <<",">> \o Descending)
    THEN [raised |-> "BookopsMarcError", value |-> <<>>, pos |-> p]
    ELSE LET found == orders(flds, lib)
         IN  [raised |-> "None",
              value |-> Reverse(found.value),
              pos |-> found.pos]

\* Bib.sort_orders(sort)
sort_orders(flds, lib, p, sort) ==
    IF sort.type # "str" \/ ~IsSubstring(sort.s, Ascending \o <<",">> \o Descending)
    THEN [raised |-> "BookopsMarcError", value |-> <<>>, pos |-> p]
    ELSE LET found == orders(flds, lib)
         IN  [raised |-> "None",
              value |-> IF sort.s = Descending THEN Reverse(found.value)
                        ELSE found.value,
              pos |-> found.pos]

SortArgs ==
    { StrVal(Ascending), StrVal(Descending), StrVal(<<"a", "s", "c">>), StrVal(<<>>),
      StrVal(<<"f", "o", "o">>), StrVal(<<"D", "e", "s", "c", "e", "n", "d", "i", "n", "g">>),
      IntVal(1), PyNone }

ReaderIdle ==
    /\ segs = <<>> /\ file = <<>> /\ cursor = 0
    /\ current_chunk = NoChunk /\ current_exception = "None" /\ log = <<>>

\* a Bib with its fields and library, no method called yet
InitBib ==
    /\ fields \in Records
    /\ bib_leader = StubLeader
    /\ library \in {BPL, NYPL, <<>>}
    /\ pos = 0
    /\ call = [op |-> "none", arg |-> PyNone]
    /\ out = [raised |-> "None", value |-> <<>>]
    /\ ReaderIdle
    /\ OclcIdle
    /\ DeweyIdle

\* bib.orders
GetOrders ==
    /\ call' = [op |-> "orders", arg |-> PyNone]
    /\ out' = [raised |-> "None", value |-> orders(fields, library).value]
    /\ pos' = orders(fields, library).pos
    /\ UNCHANGED <<fields, library, bib_leader, readerVars, oclcVars, deweyVars>>

\* bib.item_fields
GetItemFields ==
    /\ call' = [op |-> "item_fields", arg |-> PyNone]
    /\ out' = [raised |-> "None", value |-> item_fields(fields, library).value]
    /\ pos' = item_fields(fields, library).pos
    /\ UNCHANGED <<fields, library, bib_leader, readerVars, oclcVars, deweyVars>>

\* bib.sort_orders(sort)
SortOrders ==
    \E sort \in SortArgs :
        LET r == sort_orders(fields, library, pos, sort)
        IN  /\ call' = [op |-> "sort_orders", arg |-> sort]
            /\ out' = [raised |-> r.raised, value |-> r.value]
            /\ pos' = r.pos
            /\ UNCHANGED <<fields, library, bib_leader, readerVars, oclcVars, deweyVars>>

NextBib == GetOrders \/ GetItemFields \/ SortOrders

SpecBib == InitBib /\ [][NextBib]_vars

-----------------------------------------------------------------------------
(* OclcNumber *)

MaxDigits == 11     \* characters after the prefix of an OCLC number

StartsWith(s, prefix) ==
    Len(s) >= Len(prefix) /\ SubSeq(s, 1, Len(prefix)) = prefix

\* str.isnumeric(), over ASCII
IsNumeric(s) == s # <<>> /\ \A i \in 1..Len(s) : IsDigit(s[i])

\* str.strip(chars)
RECURSIVE StripChars(_, _)
StripChars(s, chars) ==
    IF s # <<>> /\ Head(s) \in chars THEN StripChars(Tail(s), chars)
    ELSE IF s # <<>> /\ s[Len(s)] \in chars
    THEN StripChars(SubSeq(s, 1, Len(s) - 1), chars)
    ELSE s

\* str(int(s)) for a digit string s: the digits without leading zeros; Python
\* integers have no upper limit, so the number is kept as its digits
RECURSIVE IntDigits(_)
IntDigits(s) ==
    IF Len(s) > 1 /\ Head(s) = "0" THEN IntDigits(Tail(s)) ELSE s

\* int(s) > 0 for a digit string s
IsPositive(s) == IntDigits(s) # <<"0">>

\* str(n) for n >= 0
RECURSIVE NatToStr(_)
NatToStr(n) ==
    IF n < 10 THEN <<Digits[n + 1]>>
    ELSE NatToStr(n \div 10) \o <<Digits[(n % 10) + 1]>>

\* str(value)
PyStr(value) ==
    CASE value.type = "str" -> value.s
      [] value.type = "int" -> NatToStr(value.n)
      [] value.type = "NoneType" -> <<"N", "o", "n", "e">>
      [] value.type = "list" -> <<"[", "]">>

\* bool(value)
Truthy(value) ==
    CASE value.type = "str" -> value.s # <<>>
      [] value.type = "int" -> value.n # 0
      [] value.type = "NoneType" -> FALSE
      [] value.type = "list" -> FALSE

Ocm == <<"o", "c", "m">>
Ocn == <<"o", "c", "n">>
On == <<"o", "n">>
OCoLC == <<"(", "o", "c", "o", "l", "c", ")">>

\* OclcNumber.is_valid(value)
is_valid(value) ==
    LET str_value == Lower(PyStr(value))
        num_value == StripChars(str_value, {"o", "c", "l", "m", "n", "(", ")"})
    IN  IF ~Truthy(value) THEN FALSE
        ELSE IF value.type # "str" /\ value.type # "int" THEN FALSE
        ELSE IF IsNumeric(str_value) /\ IsPositive(str_value) THEN TRUE
        ELSE IF \/ /\ IsNumeric(num_value)
                   /\ StartsWith(str_value, Ocm) /\ Len(num_value) = 8
                \/ StartsWith(str_value, Ocn) /\ Len(num_value) = 9
                \/ StartsWith(str_value, On) /\ Len(num_value) >= 10
                \/ StartsWith(str_value, OCoLC)
        THEN TRUE
        ELSE FALSE

\* OclcNumber(value): the value setter stores _value, then validates it
OclcNumber(value) ==
    LET stored == IF value.type = "str" /\ StartsWith(Lower(value.s), OCoLC)
                  THEN value.s
                  ELSE RStrip(LStrip(Lower(PyStr(value))))
    IN  [raised |-> IF is_valid(StrVal(stored)) THEN "None" ELSE "ValueError",
         value |-> stored]

\* k times the character c
Repeat(c, k) == [i \in 1..k |-> c]

\* str(int(s)): surrounding whitespace, one optional sign, digits; ok is FALSE
\* where int(s) raises ValueError
StrOfInt(s) ==
    LET t == RStrip(LStrip(s))
        signed == t # <<>> /\ t[1] \in {"+", "-"}
        body == IF signed THEN Tail(t) ELSE t
        wellFormed ==
            /\ body # <<>>
            /\ \A i \in 1..Len(body) : IsDigit(body[i]) \/ body[i] = "_"
            /\ IsDigit(body[1]) /\ IsDigit(body[Len(body)])
            /\ \A i \in 1..(Len(body) - 1) : ~(body[i] = "_" /\ body[i + 1] = "_")
        digits == IntDigits(SelectSeq(body, IsDigit))
    IN  IF ~wellFormed THEN [ok |-> FALSE, s |-> <<>>]
        ELSE [ok |-> TRUE,
              s |-> IF signed /\ t[1] = "-" /\ digits # <<"0">>
                    THEN <<"-">> \o digits ELSE digits]

\* str.zfill(width): zeros after the sign up to the width
ZFill(s, width) ==
    IF Len(s) >= width THEN s
    ELSE IF s # <<>> /\ s[1] \in {"+", "-"}
    THEN <<s[1]>> \o Repeat("0", width - Len(s)) \o Tail(s)
    ELSE Repeat("0", width - Len(s)) \o s

OclcPrefixChars == {"(", ")", "o", "c", "l", "n", "m"}

\* OclcNumber.has_prefix, value being OclcNumber.value
has_prefix(value) ==
    LET oclc_lower == Lower(value)
    IN  \/ StartsWith(oclc_lower, Ocm)
        \/ StartsWith(oclc_lower, Ocn)
        \/ StartsWith(oclc_lower, On)
        \/ StartsWith(oclc_lower, OCoLC)

\* with_prefix that takes the prefix from the length of the stored value
with_prefixRawLength(value) ==
    IF has_prefix(value) /\ ~StartsWith(Lower(value), OCoLC)
    THEN [raised |-> "None", value |-> value]
    ELSE LET raw == StripChars(Lower(value), OclcPrefixChars)
             num == StrOfInt(raw)
             value_length == Len(raw)
         IN  IF ~num.ok THEN [raised |-> "ValueError", value |-> <<>>]
             ELSE IF value_length <= 8 /\ value_length >= 1
             THEN [raised |-> "None", value |-> Ocm \o ZFill(num.s, 8)]
             ELSE IF value_length = 9
             THEN [raised |-> "None", value |-> Ocn \o num.s]
             ELSE [raised |-> "None", value |-> On \o num.s]

\* OclcNumber.with_prefix
with_prefix(value) ==
    IF has_prefix(value) /\ ~StartsWith(Lower(value), OCoLC)
    THEN [raised |-> "None", value |-> value]
    ELSE LET num == StrOfInt(StripChars(Lower(value), OclcPrefixChars))
             value_length == Len(num.s)
         IN  IF ~num.ok THEN [raised |-> "ValueError", value |-> <<>>]
             ELSE IF value_length <= 8 /\ value_length >= 1
             THEN [raised |-> "None", value |-> Ocm \o ZFill(num.s, 8)]
             ELSE IF value_length = 9
             THEN [raised |-> "None", value |-> Ocn \o num.s]
             ELSE [raised |-> "None", value |-> On \o num.s]

\* without_prefix that hands the stored value back, prefix and all
without_prefixKeepsPrefix(value) == [raised |-> "None", value |-> value]

\* OclcNumber.without_prefix
without_prefix(value) ==
    IF ~has_prefix(value) THEN [raised |-> "None", value |-> value]
    ELSE LET num == StrOfInt(StripChars(Lower(value), OclcPrefixChars))
         IN  IF ~num.ok THEN [raised |-> "ValueError", value |-> <<>>]
             ELSE [raised |-> "None", value |-> num.s]

\* local_values.has_oclc_prefix(oclcNo) for a str
has_oclc_prefix(oclcNo) ==
    \/ StartsWith(Lower(oclcNo), Ocm)
    \/ StartsWith(Lower(oclcNo), Ocn)
    \/ StartsWith(Lower(oclcNo), On)
    \/ StartsWith(Lower(oclcNo), OCoLC)

\* local_values._add_oclc_prefix(value)
add_oclc_prefix(value) ==
    LET value_length == Len(value)
        num == StrOfInt(value)
    IN  IF ~num.ok THEN [raised |-> "ValueError", value |-> <<>>]
        ELSE IF value_length <= 8 /\ value_length >= 1
        THEN [raised |-> "None", value |-> Ocm \o ZFill(num.s, 8)]
        ELSE IF value_length = 9
        THEN [raised |-> "None", value |-> Ocn \o num.s]
        ELSE IF value_length > 9
        THEN [raised |-> "None", value |-> On \o num.s]
        ELSE [raised |-> "None", value |-> num.s]

\* local_values.oclcNo_with_prefix(oclcNo)
oclcNo_with_prefix(oclcNo) ==
    IF oclcNo.type = "str"
    THEN LET oclcNo_norm == RStrip(LStrip(Lower(oclcNo.s)))
         IN  IF has_oclc_prefix(oclcNo_norm)
             THEN [raised |-> "None", value |-> oclcNo_norm]
             ELSE add_oclc_prefix(oclcNo_norm)
    ELSE IF oclcNo.type = "int"
    THEN add_oclc_prefix(RStrip(LStrip(Lower(PyStr(oclcNo)))))
    ELSE [raised |-> "TypeError", value |-> <<>>]

\* OclcNumber(OclcNumber(value).with_prefix).without_prefix
round_trip(value) ==
    LET first == OclcNumber(value)
        prefixed == with_prefix(first.value)
        second == OclcNumber(StrVal(prefixed.value))
    IN  IF first.raised # "None" THEN [raised |-> first.raised, value |-> <<>>]
        ELSE IF prefixed.raised # "None" THEN prefixed
        ELSE IF second.raised # "None" THEN [raised |-> second.raised, value |-> <<>>]
        ELSE without_prefix(second.value)

OclcValues ==
    { StrVal(prefix \o Repeat(c, k) \o tail) :
          prefix \in {<<>>, Ocm, Ocn, On, <<"O", "C", "M">>, OCoLC, <<"f", "o", "o">>,
                      <<"0">>},
          c \in {"1", "0", "a"},
          k \in 0..MaxDigits,
          tail \in {<<>>, <<"n">>, <<" ">>} }
    \cup {IntVal(0), IntVal(1), IntVal(1234567890), PyNone, PyList}

InitOclc ==
    /\ oclc_arg \in OclcValues
    /\ oclc = [op |-> "none", raised |-> "None", value |-> <<>>, valid |-> FALSE]
    /\ library = <<>>
    /\ ReaderIdle
    /\ BibIdle
    /\ DeweyIdle

\* OclcNumber(oclc_arg)
Construct ==
    /\ oclc' = [op |-> "init", raised |-> OclcNumber(oclc_arg).raised,
                value |-> OclcNumber(oclc_arg).value, valid |-> FALSE]
    /\ UNCHANGED <<oclc_arg, library, readerVars, bibVars, deweyVars>>

\* OclcNumber.is_valid(oclc_arg)
IsValid ==
    /\ oclc' = [op |-> "is_valid", raised |-> "None", value |-> <<>>,
                valid |-> is_valid(oclc_arg)]
    /\ UNCHANGED <<oclc_arg, library, readerVars, bibVars, deweyVars>>

\* OclcNumber(oclc_arg).has_prefix
HasPrefix ==
    /\ OclcNumber(oclc_arg).raised = "None"
    /\ oclc' = [op |-> "has_prefix", raised |-> "None", value |-> <<>>,
                valid |-> has_prefix(OclcNumber(oclc_arg).value)]
    /\ UNCHANGED <<oclc_arg, library, readerVars, bibVars, deweyVars>>

\* OclcNumber(oclc_arg).with_prefix
WithPrefix ==
    /\ OclcNumber(oclc_arg).raised = "None"
    /\ LET r == with_prefix(OclcNumber(oclc_arg).value)
       IN  oclc' = [op |-> "with_prefix", raised |-> r.raised, value |-> r.value,
                    valid |-> FALSE]
    /\ UNCHANGED <<oclc_arg, library, readerVars, bibVars, deweyVars>>

\* OclcNumber(oclc_arg).without_prefix
WithoutPrefix ==
    /\ OclcNumber(oclc_arg).raised = "None"
    /\ LET r == without_prefix(OclcNumber(oclc_arg).value)
       IN  oclc' = [op |-> "without_prefix", raised |-> r.raised, value |-> r.value,
                    valid |-> FALSE]
    /\ UNCHANGED <<oclc_arg, library, readerVars, bibVars, deweyVars>>

\* OclcNumber(OclcNumber(oclc_arg).with_prefix).without_prefix
RoundTrip ==
    /\ LET r == round_trip(oclc_arg)
       IN  oclc' = [op |-> "round_trip", raised |-> r.raised, value |-> r.value,
                    valid |-> FALSE]
    /\ UNCHANGED <<oclc_arg, library, readerVars, bibVars, deweyVars>>

\* local_values.oclcNo_with_prefix(oclc_arg)
OclcNoWithPrefix ==
    /\ LET r == oclcNo_with_prefix(oclc_arg)
       IN  oclc' = [op |-> "oclcNo_with_prefix", raised |-> r.raised,
                    value |-> r.value, valid |-> FALSE]
    /\ UNCHANGED <<oclc_arg, library, readerVars, bibVars, deweyVars>>

\* num.value = value, for the OclcNumber num that the constructor or an
\* earlier assignment left: the setter stores the value, then validates it
SetValue ==
    /\ oclc.op \in {"init", "set"}
    /\ oclc.op = "init" => oclc.raised = "None"
    /\ \E value \in
           { StrVal(<<"1", "2", "3", "4", "5", "6", "7", "8", "9", "0", "1">>),
             StrVal(<<"o", "c", "m", "1", "2", "3", "4", "5", "6", "7", "8">>),
             StrVal(<<"f", "o", "o">>), StrVal(<<"o", "c", "m", "1">>), StrVal(<<>>),
             PyNone } :
           oclc' = [op |-> "set", arg |-> value, raised |-> OclcNumber(value).raised,
                    value |-> OclcNumber(value).value, valid |-> FALSE]
    /\ UNCHANGED <<oclc_arg, library, readerVars, bibVars, deweyVars>>

NextOclc ==
    \/ Construct \/ IsValid \/ HasPrefix \/ WithPrefix \/ WithoutPrefix
    \/ RoundTrip \/ OclcNoWithPrefix \/ SetValue

SpecOclc == InitOclc /\ [][NextOclc]_vars

-----------------------------------------------------------------------------
(* Dewey class marks: normalize_dewey and shorten_dewey of local_values *)

MaxMark == 5        \* characters of the digits-and-points part of a class mark
MaxShorten == 2     \* digits_after_period handed to shorten_dewey

\* str.replace(old, ""): every occurrence of old, left to right, taken out
RECURSIVE Remove(_, _)
Remove(s, old) ==
    IF Len(s) < Len(old) THEN s
    ELSE IF StartsWith(s, old) THEN Remove(SubSeq(s, Len(old) + 1, Len(s)), old)
    ELSE <<Head(s)>> \o Remove(Tail(s), old)

\* digits in which single underscores may separate digits
IsDigitPart(b) ==
    /\ b # <<>>
    /\ \A i \in 1..Len(b) : IsDigit(b[i]) \/ b[i] = "_"
    /\ IsDigit(b[1]) /\ IsDigit(b[Len(b)])
    /\ \A i \in 1..(Len(b) - 1) : ~(b[i] = "_" /\ b[i + 1] = "_")

\* digits, digits with a point, or a point with digits on one side at least
IsPointFloat(m) ==
    \/ IsDigitPart(m)
    \/ \E p \in 1..Len(m) :
          /\ m[p] = "."
          /\ LET l == SubSeq(m, 1, p - 1)
                 r == SubSeq(m, p + 1, Len(m))
             IN  /\ l = <<>> \/ IsDigitPart(l)
                 /\ r = <<>> \/ IsDigitPart(r)
                 /\ ~(l = <<>> /\ r = <<>>)

\* float(s) returns: surrounding whitespace, one optional sign, then inf,
\* infinity, nan, or a decimal numeral with an optional exponent
IsFloat(s) ==
    LET t == RStrip(LStrip(s))
        b == IF t # <<>> /\ t[1] \in {"+", "-"} THEN Tail(t) ELSE t
        IsExponent(x) ==
            IsDigitPart(IF x # <<>> /\ x[1] \in {"+", "-"} THEN Tail(x) ELSE x)
    IN  \/ Lower(b) \in { <<"i", "n", "f">>, <<"n", "a", "n">>,
                         <<"i", "n", "f", "i", "n", "i", "t", "y">> }
        \/ IsPointFloat(b)
        \/ \E e \in 1..Len(b) :
              /\ b[e] \in {"e", "E"}
              /\ IsPointFloat(SubSeq(b, 1, e - 1))
              /\ IsExponent(SubSeq(b, e + 1, Len(b)))

\* the replace chain and strip of normalize_dewey
Cleaned(class_mark) ==
    RStrip(LStrip(
        Remove(Remove(Remove(Remove(Remove(class_mark, <<"/">>), <<"j">>), <<"C">>),
                      <<"[", "B", "]">>), <<"'">>)))

\* "while len(class_mark) > 4 and class_mark[-1] == '0'" of normalize_dewey
RECURSIVE StripZeros(_)
StripZeros(class_mark) ==
    IF Len(class_mark) > 4 /\ class_mark[Len(class_mark)] = "0"
    THEN StripZeros(SubSeq(class_mark, 1, Len(class_mark) - 1))
    ELSE class_mark

\* local_values.normalize_dewey(class_mark)
normalize_dewey(class_mark) ==
    IF class_mark.type # "str" THEN None
    ELSE IF ~IsFloat(Cleaned(class_mark.s)) THEN None
    ELSE Some(StripZeros(Cleaned(class_mark.s)))

\* "while len(class_mark) > 3 and class_mark[-1] in '.0'" of shorten_dewey
RECURSIVE StripPointAndZeros(_)
StripPointAndZeros(class_mark) ==
    IF Len(class_mark) > 3 /\ class_mark[Len(class_mark)] \in {".", "0"}
    THEN StripPointAndZeros(SubSeq(class_mark, 1, Len(class_mark) - 1))
    ELSE class_mark

\* local_values.shorten_dewey(class_mark, digits_after_period)
shorten_dewey(class_mark, digits_after_period) ==
    StripPointAndZeros(PySlice(class_mark, 0, 4 + digits_after_period))

\* every string of at most n characters over the alphabet
RECURSIVE Strings(_, _)
Strings(alphabet, n) ==
    IF n = 0 THEN {<<>>}
    ELSE Strings(alphabet, n - 1)
         \cup {Append(w, c) : w \in {v \in Strings(alphabet, n - 1) : Len(v) = n - 1},
                              c \in alphabet}

\* class marks: digits and points, an exponent letter, the marks the normalizer
\* takes out, and the class marks of test_normalize_dewey
ClassMarks ==
    { StrVal(pre \o w \o post) :
          pre \in {<<>>, <<"j">>},
          w \in Strings({"0", "1", ".", "e"}, MaxMark),
          post \in {<<>>, <<" ">>} }
    \cup { StrVal(<<"[", "F", "i", "c", "]">>),
           StrVal(<<"9", "4", "2", ".", "0", "8", "2", " ", "[", "B", "]">>),
           StrVal(<<"C", "3", "6", "4", "/", ".", "9", "7", "1">>),
           StrVal(<<"3", "6", "4", "'", ".", "9", "7", "1">>),
           StrVal(<<"9", "0", "0", ".", "1", "0", "0">>),
           PyNone }

InitDewey ==
    /\ dewey_arg \in ClassMarks
    /\ dewey_out = [op |-> "none", value |-> None, digits |-> 0]
    /\ library = <<>>
    /\ ReaderIdle
    /\ BibIdle
    /\ OclcIdle

\* normalize_dewey(dewey_arg)
NormalizeDewey ==
    /\ dewey_out' = [op |-> "normalize_dewey", value |-> normalize_dewey(dewey_arg),
                 digits |-> 0]
    /\ UNCHANGED <<dewey_arg, library, readerVars, bibVars, oclcVars>>

\* normalize_dewey(normalize_dewey(dewey_arg)), the first result being a str
NormalizeDeweyAgain ==
    /\ ~normalize_dewey(dewey_arg).isNone
    /\ dewey_out' = [op |-> "normalize_dewey_again",
                 value |-> normalize_dewey(StrVal(normalize_dewey(dewey_arg).s)),
                 digits |-> 0]
    /\ UNCHANGED <<dewey_arg, library, readerVars, bibVars, oclcVars>>

\* shorten_dewey(normalize_dewey(dewey_arg), digits_after_period)
ShortenDewey ==
    /\ ~normalize_dewey(dewey_arg).isNone
    /\ \E digits_after_period \in 0..MaxShorten :
          dewey_out' = [op |-> "shorten_dewey",
                    value |-> Some(shorten_dewey(normalize_dewey(dewey_arg).s,
                                                 digits_after_period)),
                    digits |-> digits_after_period]
    /\ UNCHANGED <<dewey_arg, library, readerVars, bibVars, oclcVars>>

NextDewey == NormalizeDewey \/ NormalizeDeweyAgain \/ ShortenDewey

SpecDewey == InitDewey /\ [][NextDewey]_vars

-----------------------------------------------------------------------------
(* Bib: control number, OCLC identifiers, subject fields and Dewey class mark *)

MaxCatFields == 3   \* fields of a record

\* a control field of pymarc: tag and data, no indicators, no subfields
ControlField(tag, data) ==
    [tag |-> tag, ind1 |-> " ", ind2 |-> " ", subs |-> <<>>, data |-> data]

\* Record.get_fields(*tags)
get_fields(flds, tags) == SelectSeq(flds, LAMBDA f : f.tag \in tags)

\* Field.get_subfields(code): the values of every subfield with that code
get_subfields(field, code) ==
    LET hits == SelectSeq(field.subs, LAMBDA sub : sub[1] = code)
    IN  [k \in 1..Len(hits) |-> hits[k][2]]

\* Bib.control_number
control_number(flds) ==
    LET field == First(flds, "001")
    IN  IF field # 0 /\ flds[field].data # <<>>
        THEN Some(RStrip(LStrip(flds[field].data)))
        ELSE None

\* get_subvalue(fields, subfield_code) of Bib.oclc_nos
RECURSIVE get_subvalue(_, _)
get_subvalue(flds, subfield_code) ==
    IF flds = <<>> THEN [found |-> FALSE, raised |-> "None", value |-> <<>>]
    ELSE LET value == Get(Head(flds), subfield_code)
         IN  IF ~value.isNone /\ value.s # <<>> /\ is_valid(StrVal(value.s))
             THEN [found |-> TRUE,
                   raised |-> OclcNumber(StrVal(value.s)).raised,
                   value |-> OclcNumber(StrVal(value.s)).value]
             ELSE get_subvalue(Tail(flds), subfield_code)

\* Bib.oclc_nos: the mapping as a set of (tag, identifier) pairs
oclc_nos(flds, lib) ==
    LET source_field == First(flds, "003")
        id_field == First(flds, "001")
        from001 ==
            source_field # 0
            /\ IsSubstring(<<"o", "c", "o", "l", "c">>, Lower(flds[source_field].data))
            /\ id_field # 0
            /\ flds[id_field].data # <<>>
            /\ is_valid(StrVal(flds[id_field].data))
        number001 == OclcNumber(StrVal(flds[id_field].data))
        subfield_035 == get_subvalue(get_fields(flds, {"035"}), "a")
        from035 == subfield_035.found /\ has_prefix(subfield_035.value)
        subfield_991 == get_subvalue(get_fields(flds, {"991"}), "y")
        from991 == subfield_991.found /\ lib = NYPL
        raises ==
            \/ from001 /\ number001.raised # "None"
            \/ from001 /\ without_prefix(number001.value).raised # "None"
            \/ subfield_035.raised # "None"
            \/ from035 /\ without_prefix(subfield_035.value).raised # "None"
            \/ subfield_991.raised # "None"
            \/ from991 /\ without_prefix(subfield_991.value).raised # "None"
    IN  IF raises THEN [raised |-> "ValueError", value |-> {}]
        ELSE [raised |-> "None",
              value |->
                  (IF from001 THEN {<<"001", without_prefix(number001.value).value>>}
                   ELSE {})
                  \cup (IF from035
                        THEN {<<"035", without_prefix(subfield_035.value).value>>}
                        ELSE {})
                  \cup (IF from991
                        THEN {<<"991", without_prefix(subfield_991.value).value>>}
                        ELSE {})]

\* Bib.normalize_oclc_control_number()
normalize_oclc_control_number(flds, lib) ==
    LET controlNo == control_number(flds)
        number == OclcNumber(StrVal(controlNo.s))
        written == IF lib = BPL THEN with_prefix(number.value)
                   ELSE without_prefix(number.value)
    IN  IF lib \notin {NYPL, BPL} THEN [raised |-> "BookopsMarcError", fields |-> flds]
        ELSE IF controlNo.isNone \/ controlNo.s = <<>> \/ ~is_valid(StrVal(controlNo.s))
        THEN [raised |-> "None", fields |-> flds]
        ELSE IF number.raised # "None" \/ written.raised # "None"
        THEN [raised |-> "ValueError", fields |-> flds]
        ELSE [raised |-> "None",
              fields |-> [flds EXCEPT ![First(flds, "001")].data = written.value]]

\* the tags Record.subjects of pymarc collects
SubjectTags ==
    {"600", "610", "611", "630", "648", "650", "651", "653", "654", "655", "656",
     "657", "658", "662", "690", "691", "696", "697", "698", "699"}

\* constants.SUPPORTED_SUBJECT_TAGS
SUPPORTED_SUBJECT_TAGS == {"600", "610", "611", "630", "648", "650", "651", "655"}

\* constants.SUPPORTED_THESAURI
SUPPORTED_THESAURI ==
    { <<"l", "c", "s", "h">>, <<"f", "a", "s", "t">>, <<"g", "s", "a", "f", "d">>,
      <<"l", "c", "g", "f", "t">>, <<"l", "c", "t", "g", "m">>,
      <<"b", "o", "o", "k", "o", "p", "s">>, <<"h", "o", "m", "o", "i", "t">> }

\* list.remove(field): the first field equal to it taken out
RECURSIVE remove_field(_, _)
remove_field(flds, field) ==
    IF flds = <<>> THEN <<>>
    ELSE IF Head(flds) = field THEN Tail(flds)
    ELSE <<Head(flds)>> \o remove_field(Tail(flds), field)

\* the test that keeps a heading whatever its second indicator
UnsupportedByTagOnly(field) == field.tag \notin SUPPORTED_SUBJECT_TAGS

\* the body of the loop of remove_unsupported_subjects: is the field removed
Unsupported(field) ==
    IF field.tag \notin SUPPORTED_SUBJECT_TAGS THEN TRUE
    ELSE IF field.ind2 = "0" THEN FALSE
    ELSE IF field.ind2 = "7"
    THEN IF ~Get(field, "2").isNone
         THEN RStrip(LStrip(Get(field, "2").s)) \notin SUPPORTED_THESAURI
         ELSE TRUE
    ELSE TRUE

\* "for field in subjects" of remove_unsupported_subjects
RECURSIVE RemoveLoop(_, _)
RemoveLoop(flds, subjects) ==
    IF subjects = <<>> THEN flds
    ELSE RemoveLoop(IF Unsupported(Head(subjects))
                    THEN remove_field(flds, Head(subjects))
                    ELSE flds,
                    Tail(subjects))

remove_unsupported_subjectsMovingKept(flds) ==
    LET left == RemoveLoop(flds, get_fields(flds, SubjectTags))
    IN  SelectSeq(left, LAMBDA f : f.tag \in SubjectTags)
            \o SelectSeq(left, LAMBDA f : f.tag \notin SubjectTags)

\* Bib.remove_unsupported_subjects(): the field list it leaves
remove_unsupported_subjects(flds) == RemoveLoop(flds, get_fields(flds, SubjectTags))

\* Bib.dewey
dewey(flds) ==
    LET found == get_fields(flds, {"082"})
        lc_class == SelectSeq(found, LAMBDA i : i.ind1 = "0" /\ i.ind2 = "0")
        other_agency == SelectSeq(found, LAMBDA i : i.ind1 = "0" /\ i.ind2 = "4")
        class_mark == IF Len(lc_class) > 0 THEN Get(lc_class[1], "a")
                      ELSE IF Len(other_agency) > 0 THEN Get(other_agency[1], "a")
                      ELSE None
    IN  IF class_mark.isNone THEN None
        ELSE IF ~IsFloat(Cleaned(RStrip(LStrip(class_mark.s)))) THEN None
        ELSE Some(StripZeros(Cleaned(RStrip(LStrip(class_mark.s)))))

\* a location code without its quantity in parentheses, as Order.locs reads it
NormalizedLoc(sub) ==
    IF (\E i \in 1..Len(sub) : sub[i] = "(") /\ (\E i \in 1..Len(sub) : sub[i] = ")")
    THEN LET s == CHOOSE i \in 1..Len(sub) :
                      sub[i] = "(" /\ \A j \in 1..(i - 1) : sub[j] # "("
             e == CHOOSE i \in 1..Len(sub) :
                      sub[i] = ")" /\ \A j \in 1..(i - 1) : sub[j] # ")"
         IN  SubSeq(sub, 1, s - 1) \o SubSeq(sub, e + 1, Len(sub))
    ELSE sub

\* Order.locs
locs(field) ==
    LET subs == get_subfields(field, "t")
    IN  SelectSeq([k \in 1..Len(subs) |-> NormalizedLoc(subs[k])], LAMBDA loc : loc # <<>>)

\* Order.audn
audn(field) ==
    LET long == SelectSeq(locs(field), LAMBDA i : Len(i) >= 3)
        audns == [k \in 1..Len(long) |-> RStrip(LStrip(<<long[k][3]>>))]
    IN  SelectSeq(audns, LAMBDA i : i # <<>>)

\* list(chain(*[i.audn for i in self.orders])), the orders given by their place
RECURSIVE Audns(_, _)
Audns(flds, found) ==
    IF found = <<>> THEN <<>>
    ELSE audn(flds[Head(found).field]) \o Audns(flds, Tail(found))

\* Bib.dewey_shortened
dewey_shortened(flds, lib) ==
    LET class_mark == dewey(flds)
        found == orders(flds, lib)
        audns == Audns(flds, found.value)
        digits == IF lib = NYPL /\ \A k \in 1..Len(audns) : audns[k] = <<"j">>
                  THEN 2 ELSE 4
    IN  IF class_mark.isNone THEN [value |-> None, pos |-> found.pos]
        ELSE [value |-> Some(StripPointAndZeros(PySlice(class_mark.s, 0, 4 + digits))),
              pos |-> found.pos]

\* fields that carry identifiers: 003, 001, 035 $a, 991 $y
IdKinds ==
    { ControlField("003", <<"O", "C", "o", "L", "C">>),
      ControlField("001", <<"0", "1">>),
      ControlField("001", <<"O", "C", "M", "0", "0", "0", "0", "0", "0", "0", "1">>),
      ControlField("001", <<"f", "o", "o">>),
      ControlField("001", <<"o", "c", "n", "a", "a", "a", "a", "a", "a", "a", "a", "a">>),
      Field("035", " ", " ",
            << <<"a", <<"(", "O", "C", "o", "L", "C", ")",
                        "0", "0", "0", "0", "0", "0", "0", "1">> >> >>),
      Field("035", " ", " ", << <<"a", <<"0", "1">>>> >>),
      Field("991", " ", " ", << <<"y", <<"1">> >> >>) }

\* subject fields and a title
SubjectKinds ==
    { Field("650", " ", "0", << <<"a", <<"F", "o", "o", ".">>>> >>),
      Field("650", " ", "7", << <<"a", <<"F", "o", "o", ".">>>>, <<"2", <<"f", "a", "s", "t">>>> >>),
      Field("650", " ", "7", << <<"a", <<"F", "o", "o", ".">>>>, <<"2", <<"a", "a", "t">>>> >>),
      Field("650", " ", "7", << <<"a", <<"F", "o", "o", ".">>>> >>),
      Field("650", " ", "1", << <<"a", <<"F", "o", "o", ".">>>> >>),
      Field("654", " ", "0", << <<"a", <<"F", "o", "o", ".">>>> >>),
      Field("600", "1", "7", << <<"a", <<"F", "o", "o", ".">>>>, <<"2", <<" ">> \o <<"l", "c", "s", "h">>>> >>),
      Field("245", "1", "0", << <<"a", <<"F", "o", "o", ".">>>> >>) }

\* class marks in 082 and orders with their location codes
DeweyKinds ==
    { Field("082", "0", "0", << <<"a", <<"9", "0", "9", ".", "/", "0", "9", "2", "0", "8">>>> >>),
      Field("082", "0", "4", << <<"a", <<"1", "2", ".", "3", "4", "5">>>> >>),
      Field("082", "0", "4", << <<"a", <<"[", "F", "i", "c", "]">>>> >>),
      Field("082", " ", " ", << <<"a", <<"9", "0", "0", ".", "5">>>> >>),
      Field("082", "0", "0", << <<"2", <<"2", "3">> >> >>),
      Field("960", " ", " ", << <<"t", <<"a", "g", "j", "0", "y">>>> >>),
      Field("960", " ", " ", << <<"t", <<"a", "g", "a", "0", "y">>>>, <<"t", <<"m", "m", "j", "0", "f", "(", "2", ")">>>> >>),
      Field("960", " ", " ", << <<"z", <<".", "o", "1", "0">> >> >>) }

CatRecords ==
    UNION { [1..n -> kinds] : n \in 0..MaxCatFields,
                              kinds \in {IdKinds, SubjectKinds, DeweyKinds} }

\* a Bib with its fields and library, no method called yet
InitCat ==
    /\ fields \in CatRecords
    /\ bib_leader = StubLeader
    /\ library \in {BPL, NYPL, <<>>}
    /\ pos = 0
    /\ call = [op |-> "none", arg |-> PyNone]
    /\ out = [raised |-> "None", value |-> <<>>]
    /\ ReaderIdle
    /\ OclcIdle
    /\ DeweyIdle

\* bib.oclc_nos
GetOclcNos ==
    /\ call' = [op |-> "oclc_nos", arg |-> PyNone]
    /\ out' = oclc_nos(fields, library)
    /\ UNCHANGED <<fields, pos, library, bib_leader, readerVars, oclcVars, deweyVars>>

\* bib.normalize_oclc_control_number()
NormalizeOclcControlNumber ==
    /\ call' = [op |-> "normalize_oclc_control_number", arg |-> PyNone]
    /\ out' = [raised |-> normalize_oclc_control_number(fields, library).raised,
               value |-> <<>>]
    /\ fields' = normalize_oclc_control_number(fields, library).fields
    /\ UNCHANGED <<pos, library, bib_leader, readerVars, oclcVars, deweyVars>>

\* bib.remove_unsupported_subjects()
RemoveUnsupportedSubjects ==
    /\ call' = [op |-> "remove_unsupported_subjects", arg |-> PyNone]
    /\ out' = [raised |-> "None", value |-> <<>>]
    /\ fields' = remove_unsupported_subjects(fields)
    /\ UNCHANGED <<pos, library, bib_leader, readerVars, oclcVars, deweyVars>>

\* bib.dewey
GetDewey ==
    /\ call' = [op |-> "dewey", arg |-> PyNone]
    /\ out' = [raised |-> "None", value |-> dewey(fields)]
    /\ UNCHANGED <<fields, pos, library, bib_leader, readerVars, oclcVars, deweyVars>>

\* bib.dewey_shortened
GetDeweyShortened ==
    /\ call' = [op |-> "dewey_shortened", arg |-> PyNone]
    /\ out' = [raised |-> "None", value |-> dewey_shortened(fields, library).value]
    /\ pos' = dewey_shortened(fields, library).pos
    /\ UNCHANGED <<fields, library, bib_leader, readerVars, oclcVars, deweyVars>>

NextCat ==
    \/ GetOclcNos \/ NormalizeOclcControlNumber \/ RemoveUnsupportedSubjects
    \/ GetDewey \/ GetDeweyShortened

SpecCat == InitCat /\ [][NextCat]_vars

-----------------------------------------------------------------------------
(* Location codes: normalize_location_code and Order.locs *)

MaxCode == 3        \* characters of a location code

\* str.index(c): the offset of the first c, -1 standing for ValueError
Index(s, c) ==
    IF \E i \in 1..Len(s) : s[i] = c
    THEN (CHOOSE i \in 1..Len(s) : s[i] = c /\ \A j \in 1..(i - 1) : s[j] # c) - 1
    ELSE -1

\* normalize_location_code(code)
normalize_location_code(code) ==
    LET s == Index(code, "(")
        e == Index(code, ")")
    IN  IF s = -1 \/ e = -1 THEN code
        ELSE PySlice(code, 0, s) \o PySlice(code, e + 1, Len(code))

\* a 960 field with one or two location subfields
LocFields ==
    LET LocationCodes == Strings({"a", "3", "(", ")"}, MaxCode)
    IN  { Field("960", " ", " ", << <<"t", code>> >>) : code \in LocationCodes }
        \cup { Field("960", " ", " ",
                     << <<"t", code>>, <<"t", <<"a", "g", "j", "0", "y">> >> >>) :
                 code \in LocationCodes }

\* a record holding one 960 field, no function applied yet
InitLoc ==
    /\ fields \in {<<f>> : f \in LocFields}
    /\ bib_leader = StubLeader
    /\ library = NYPL
    /\ pos = 0
    /\ call = [op |-> "none", arg |-> PyNone]
    /\ out = [raised |-> "None", value |-> <<>>]
    /\ ReaderIdle
    /\ OclcIdle
    /\ DeweyIdle

\* normalize_location_code(code) for a location code of the field
NormalizeLocationCode ==
    \E k \in 1..Len(get_subfields(fields[1], "t")) :
        LET code == get_subfields(fields[1], "t")[k]
        IN  /\ call' = [op |-> "normalize_location_code", arg |-> StrVal(code)]
            /\ out' = [raised |-> "None", value |-> normalize_location_code(code)]
            /\ UNCHANGED <<fields, pos, library, bib_leader, readerVars, oclcVars, deweyVars>>

\* Order(field, None).locs
GetLocs ==
    /\ call' = [op |-> "locs", arg |-> PyNone]
    /\ out' = [raised |-> "None", value |-> locs(fields[1])]
    /\ UNCHANGED <<fields, pos, library, bib_leader, readerVars, oclcVars, deweyVars>>

NextLoc == NormalizeLocationCode \/ GetLocs

SpecLoc == InitLoc /\ [][NextLoc]_vars

-----------------------------------------------------------------------------
(* Construction of Bib, Order and Item objects *)

MaxNewFields == 2   \* fields of the record the objects are built from

\* the libraries a Bib works for
Recognized(lib) == lib.type = "str" /\ Lower(lib.s) \in {BPL, NYPL}

BibChecksLibrary(lib) ==
    IF Recognized(lib)
    THEN [raised |-> "None", library |-> StrVal(Lower(lib.s))]
    ELSE [raised |-> "ValueError", library |-> PyNone]

\* Bib(library=lib): Bib.__init__ on the default data, an empty record
Bib(lib) ==
    IF lib.type = "str"
    THEN [raised |-> "None", library |-> StrVal(Lower(lib.s))]
    ELSE [raised |-> "AttributeError", library |-> PyNone]

\* Bib.pymarc_record_to_local_bib(record, library); record is a pymarc Record
\* with its fields, or something else
pymarc_record_to_local_bib(isRecord, ldr, flds, lib) ==
    IF ~isRecord
    THEN [raised |-> "TypeError", leader |-> <<>>, fields |-> <<>>, library |-> PyNone]
    ELSE [raised |-> Bib(StrVal(<<>>)).raised, leader |-> ldr, fields |-> flds,
          library |-> lib]

\* code in field, of pymarc
HasCode(field, code) == \E k \in 1..Len(field.subs) : field.subs[k][1] = code

\* str.isalpha() on the characters of the model
IsAlpha(s) ==
    /\ s # <<>>
    /\ \A i \in 1..Len(s) : \E j \in 1..26 : s[i] \in {LowerCase[j], UpperCase[j]}

\* order_number[2:-1] handed to int()
OrderNumber(order_number) ==
    StrOfInt(PySlice(order_number, 2, Len(order_number) - 1))

oidFromSubscript(field) ==
    IF ~HasCode(field, "z") THEN [raised |-> "KeyError", value |-> None]
    ELSE IF ~OrderNumber(Get(field, "z").s).ok
    THEN [raised |-> "ValueError", value |-> None]
    ELSE [raised |-> "None", value |-> Some(OrderNumber(Get(field, "z").s).s)]

\* Order.oid of models.py, for the 960 field of the Order
oid(field) ==
    LET order_num == Get(field, "z")
    IN  IF order_num.isNone \/ order_num.s = <<>> \/ IsAlpha(order_num.s)
        THEN [raised |-> "None", value |-> None]
        ELSE IF ~OrderNumber(order_num.s).ok
        THEN [raised |-> "ValueError", value |-> None]
        ELSE [raised |-> "None", value |-> Some(OrderNumber(order_num.s).s)]

\* datetime.strptime(value, "%d-%m-%y") returns a date: three pieces
\* between the hyphens, a day and a month of one or two digits and a year of
\* two, the day being one the month has
IsDayMonthYear(value) ==
    LET RECURSIVE Split(_)
        Split(s) ==
            IF Index(s, "-") = -1 THEN <<s>>
            ELSE <<SubSeq(s, 1, Index(s, "-"))>>
                 \o Split(SubSeq(s, Index(s, "-") + 2, Len(s)))
        parts == Split(value)
        IsDayOrMonth(s, hi) ==
            /\ Len(s) \in {1, 2}
            /\ \A i \in 1..Len(s) : IsDigit(s[i])
            /\ DigitsValue(s, 0) \in 1..hi
        DaysIn(month, year) ==
            IF month = 2 THEN (IF year % 4 = 0 THEN 29 ELSE 28)
            ELSE IF month \in {4, 6, 9, 11} THEN 30 ELSE 31
    IN  /\ Len(parts) = 3
        /\ IsDayOrMonth(parts[1], 31)
        /\ IsDayOrMonth(parts[2], 12)
        /\ Len(parts[3]) = 2 /\ IsDigit(parts[3][1]) /\ IsDigit(parts[3][2])
        /\ DigitsValue(parts[1], 0)
               <= DaysIn(DigitsValue(parts[2], 0), DigitsValue(parts[3], 0))

\* Order._parse_order_fields of order.py: field[code] of pymarc raises
\* KeyError for a code the field lacks
_parse_order_fields(fixed_field, variable_field) ==
    LET created == RStrip(LStrip(Get(fixed_field, "q").s))
    IN  IF ~HasCode(fixed_field, "z") THEN [raised |-> "KeyError", value |-> None]
        ELSE IF ~OrderNumber(Get(fixed_field, "z").s).ok
        THEN [raised |-> "ValueError", value |-> None]
        ELSE IF \E code \in {"c", "d", "e", "f", "o", "x", "q"} : ~HasCode(fixed_field, code)
        THEN [raised |-> "KeyError", value |-> None]
        ELSE IF created # <<>> /\ ~IsDayMonthYear(created)
        THEN [raised |-> "ValueError", value |-> None]
        ELSE IF \E code \in {"g", "w", "i", "s", "m", "v"} : ~HasCode(fixed_field, code)
        THEN [raised |-> "KeyError", value |-> None]
        ELSE IF /\ ~variable_field.isNone
                /\ \E code \in {"m", "a", "l", "h", "i"} : ~HasCode(variable_field.field, code)
        THEN [raised |-> "KeyError", value |-> None]
        ELSE [raised |-> "None", value |-> Some(OrderNumber(Get(fixed_field, "z").s).s)]

\* Order(library, fixed_field, variable_field) of order.py; the fields are
\* pymarc fields, variable_field may be None
order_Order(lib, fixed_field, variable_field) ==
    IF lib.type # "str" THEN [raised |-> "TypeError", value |-> None]
    ELSE IF Lower(lib.s) \notin {BPL, NYPL} THEN [raised |-> "ValueError", value |-> None]
    ELSE _parse_order_fields(fixed_field, variable_field)

\* Item(field) of item.py with its barcode and call_no
Item(field) ==
    [barcode |-> IF Get(field, "i").s # <<>> THEN Get(field, "i") ELSE None,
     call_no |-> IF Get(field, "a").s # <<>> THEN Get(field, "a") ELSE None]

Full960 ==
    << <<"c", <<"j">> >>, <<"d", <<"c">> >>, <<"e", <<"d">> >>, <<"f", <<"a">> >>,
       <<"g", <<"b">> >>, <<"i", <<"l">> >>, <<"m", <<"o">> >>, <<"o", <<"1", "3">> >>,
       <<"q", <<"0", "8", "-", "0", "2", "-", "2", "1">> >>,
       <<"s", <<"1", "3", ".", "2", "0">> >>, <<"t", <<"a", "g", "j", "0", "y">> >>,
       <<"u", <<"l", "e", "a", "s", "e">> >>, <<"v", <<"b", "t", "l", "e", "a">> >>,
       <<"w", <<"e", "n", "g">> >>, <<"x", <<"x", "x", "u">> >> >>

\* the fields the objects are built from: 960 fields with and without $z,
\* 961 fields, item fields with one barcode and with two
NewKinds ==
    LET OrderNo == <<"z", <<".", "o", "1", "0", "0", "0", "0", "0", "1", "0">> >>
    IN  { Field("960", " ", " ", Append(Full960, OrderNo)),
          Field("960", " ", " ", Full960),
          Field("960", " ", " ", <<OrderNo>>),
          Field("960", " ", " ",
                Append([Full960 EXCEPT
                            ![9] = <<"q", <<" ", " ", "-", " ", " ", "-", " ", " ">> >>],
                       OrderNo)),
          Field("961", " ", " ", << <<"h", <<"f", "o", "o">> >> >>),
          Field("961", " ", " ", << <<"a", <<"n">> >>, <<"h", <<"f", "o", "o">> >>,
                                    <<"i", <<"1">> >>, <<"l", <<"9", "7", "8">> >>,
                                    <<"m", <<"p", "o">> >> >>),
          Field("949", " ", "1", << <<"i", <<"3", "3", "3">> >>, <<"a", <<"F", "I", "C">> >>,
                                    <<"i", <<"4", "4", "4">> >> >>),
          Field("949", " ", "1", << <<"i", <<"3", "3", "3">> >>,
                                    <<"a", <<"F", "I", "C">> >> >>) }

\* the fields of a pymarc record and a library argument, nothing built yet
InitNew ==
    /\ fields \in UNION {[1..n -> NewKinds] : n \in 1..MaxNewFields}
    /\ bib_leader = StubLeader
    /\ library \in { StrVal(BPL), StrVal(NYPL), StrVal(<<>>), StrVal(<<"B", "P", "L">>),
                     StrVal(<<"q", "p", "l">>), PyNone }
    /\ pos = 0
    /\ call = [op |-> "none", arg |-> PyNone]
    /\ out = [raised |-> "None", value |-> <<>>]
    /\ ReaderIdle
    /\ OclcIdle
    /\ DeweyIdle

\* Bib(library=library)
ConstructBib ==
    /\ call' = [op |-> "Bib", arg |-> PyNone]
    /\ out' = [raised |-> Bib(library).raised,
               value |-> [leader |-> Repeat(" ", LEADER_LEN), fields |-> <<>>,
                          library |-> Bib(library).library]]
    /\ UNCHANGED <<fields, pos, library, bib_leader, readerVars, oclcVars, deweyVars>>

\* Bib.pymarc_record_to_local_bib(record, library)
PymarcRecordToLocalBib ==
    \E isRecord \in BOOLEAN :
        LET bib == pymarc_record_to_local_bib(isRecord, bib_leader, fields, library)
        IN  /\ call' = [op |-> "pymarc_record_to_local_bib",
                        arg |-> IF isRecord THEN StrVal(<<"R", "e", "c", "o", "r", "d">>)
                                ELSE StrVal(<<"F", "i", "e", "l", "d">>)]
            /\ out' = [raised |-> bib.raised,
                       value |-> [leader |-> bib.leader, fields |-> bib.fields,
                                  library |-> bib.library]]
            /\ UNCHANGED <<fields, pos, library, bib_leader, readerVars, oclcVars, deweyVars>>

\* order = Order(field, following_field) of models.py, then order.oid
ConstructOrder ==
    \E i \in 1..Len(fields) :
        /\ call' = [op |-> "Order", arg |-> IntVal(i)]
        /\ out' = [raised |-> "None",
                   value |-> [order |-> Order(i, IF i < Len(fields) THEN i + 1 ELSE 0),
                              oid |-> oid(fields[i])]]
        /\ UNCHANGED <<fields, pos, library, bib_leader, readerVars, oclcVars, deweyVars>>

\* Order(library, fixed_field, variable_field) of order.py
ConstructLegacyOrder ==
    \E i \in 1..Len(fields) :
        LET variable_field ==
                IF i < Len(fields) THEN [isNone |-> FALSE, field |-> fields[i + 1]]
                ELSE [isNone |-> TRUE, field |-> fields[i]]
            order == order_Order(library, fields[i], variable_field)
        IN  /\ call' = [op |-> "order.Order", arg |-> IntVal(i)]
            /\ out' = [raised |-> order.raised, value |-> [oid |-> order.value]]
            /\ UNCHANGED <<fields, pos, library, bib_leader, readerVars, oclcVars, deweyVars>>

\* item = Item(field), then item.barcode and item.call_no
ConstructItem ==
    \E i \in 1..Len(fields) :
        /\ call' = [op |-> "Item", arg |-> IntVal(i)]
        /\ out' = [raised |-> "None", value |-> Item(fields[i])]
        /\ UNCHANGED <<fields, pos, library, bib_leader, readerVars, oclcVars, deweyVars>>

NextNew ==
    \/ ConstructBib \/ PymarcRecordToLocalBib \/ ConstructOrder
    \/ ConstructLegacyOrder \/ ConstructItem

SpecNew == InitNew /\ [][NextNew]_vars

-----------------------------------------------------------------------------
(* Claims about SierraBibReader *)

N == Len(segs)

\* the iteration ran to the end of the source and end of stream was signalled
IterationDone == log # <<>> /\ log[Len(log)].ret = "StopIteration"

\* the error of a step is a framing error: raised before the chunk reached Bib
FramingError(e) == e.ret = "None" /\ ~e.parsed /\ e.exc \in FatalReaderEror

\* exactly record k of the source is framed correctly but has a corrupt leader,
\* every other record is well-formed
OnlyBadLeaderAt(k) ==
    /\ k \in 1..N
    /\ segs[k] = "badLeader"
    /\ \A i \in 1..N : i # k => segs[i] \in WellFormedSegs

\* C1: when record k of N is framed correctly but does not parse and the other
\* records are well-formed, step k returns no record and fills the error slot,
\* every other step i <= N returns the Bib of record i, and only the steps after
\* step N signal end of stream.
C1_ParseFailureIsolated ==
    \A k \in 1..N : OnlyBadLeaderAt(k) =>
        \A i \in 1..Len(log) :
            /\ i = k => log[i].ret = "None" /\ log[i].exc # "None"
            /\ i <= N /\ i # k =>
                   /\ log[i].ret = "Bib"
                   /\ log[i].bib.data = SegBytes(segs[i])
                   /\ log[i].exc = "None"
            /\ i > N => log[i].ret = "StopIteration"

C1_Witness ==
    /\ N >= 3 /\ OnlyBadLeaderAt(2)
    /\ Len(log) = N + 1 /\ IterationDone
    /\ log[2].exc = "ValueError" /\ log[3].ret = "Bib"

\* C2: over a source of N well-formed records the first N steps each return the
\* Bib of the record at that place with an empty error slot, and every later
\* step signals end of stream with an empty error slot.
C2_WellFormedStream ==
    (\A i \in 1..N : segs[i] \in WellFormedSegs) =>
        /\ \A i \in 1..Len(log) :
               /\ log[i].exc = "None"
               /\ i <= N => log[i].ret = "Bib" /\ log[i].bib.data = SegBytes(segs[i])
               /\ i > N => log[i].ret = "StopIteration"
        /\ current_exception = "None"

C2_Witness ==
    /\ N >= 2 /\ segs[1] = "goodA" /\ segs[2] = "goodB"
    /\ \A i \in 1..N : segs[i] \in WellFormedSegs
    /\ Len(log) = N + 1 /\ IterationDone

\* C3 as stated: after a step that recorded a framing error with bytes left in
\* the source, the next step goes on reading those bytes.
C3_FramingErrorNotFatal ==
    \A i \in 1..(Len(log) - 1) :
        FramingError(log[i]) /\ log[i].to < Len(file) =>
            log[i + 1].ret # "StopIteration" /\ log[i + 1].to > log[i + 1].from

\* C3 amended: a framing error is recorded in the error slot of its step, which
\* returns no record, and it ends the iteration: the next step signals end of
\* stream, reads no byte and leaves the error in the slot, bytes left or not.
C3_FramingErrorFatal ==
    /\ \A i \in 1..Len(log) :
           log[i].ret = "None" /\ ~log[i].parsed =>
               log[i].exc \in {"TruncatedRecord", "RecordLengthInvalid",
                               "EndOfRecordNotFound"}
    /\ \A i \in 1..(Len(log) - 1) :
           log[i].ret = "None" /\ ~log[i].parsed =>
               /\ log[i + 1].ret = "StopIteration"
               /\ log[i + 1].to = log[i + 1].from
               /\ log[i + 1].exc = log[i].exc

C3_Witness ==
    /\ Len(log) >= 2
    /\ FramingError(log[1]) /\ log[1].exc = "RecordLengthInvalid"
    /\ log[1].to < Len(file)
    /\ log[2].ret = "StopIteration" /\ cursor < Len(file)

\* C4: a step that does not signal end of stream either returns a Bib and leaves
\* the error slot empty, or returns no record and leaves its error in the slot.
C4_BibOrError ==
    /\ \A i \in 1..Len(log) :
           log[i].ret # "StopIteration" =>
               \/ log[i].ret = "Bib" /\ log[i].bib # NoBib /\ log[i].exc = "None"
               \/ log[i].ret = "None" /\ log[i].bib = NoBib /\ log[i].exc # "None"
    /\ log # <<>> => current_exception = log[Len(log)].exc

C4_Witness ==
    /\ Len(log) >= 2
    /\ log[1].ret = "None" /\ log[1].parsed
    /\ log[2].ret = "Bib"

\* the outcome the order of checks gives to step i, read off the source
StepAsOrdered(i) ==
    LET e == log[i]
        avail == Len(file) - e.from
        prefix == SubSeq(file, e.from + 1, e.from + 5)
        L == PyInt(prefix).val
        stopsAfter == i < Len(log) => log[i + 1].ret = "StopIteration"
    IN  IF avail = 0 THEN e.ret = "StopIteration" /\ e.exc = "None"
        ELSE IF avail < 5
        THEN e.ret = "None" /\ e.exc = "TruncatedRecord" /\ ~e.parsed /\ stopsAfter
        ELSE IF ~PyInt(prefix).ok
        THEN e.ret = "None" /\ e.exc = "RecordLengthInvalid" /\ ~e.parsed
        ELSE IF avail < L
        THEN e.ret = "None" /\ e.exc = "TruncatedRecord" /\ ~e.parsed
        ELSE IF e.chunk.bytes[Len(e.chunk.bytes)] # END_OF_RECORD
        THEN e.ret = "None" /\ e.exc = "EndOfRecordNotFound" /\ ~e.parsed
        ELSE e.parsed /\ e.ret \in {"Bib", "None"}

\* C5 as stated: the outcome of every step is the one the order of checks gives.
C5_EveryStepOrdered == \A i \in 1..Len(log) : StepAsOrdered(i)

\* C5 amended: the outcome of every step that does not start with a framing
\* error in the error slot is the one the order of checks gives; a step that
\* starts with a framing error in the slot signals end of stream and reads
\* nothing.
C5_ReadingStepOrdered ==
    \A i \in 1..Len(log) :
        IF i > 1 /\ log[i - 1].exc \in {"TruncatedRecord", "RecordLengthInvalid",
                                        "EndOfRecordNotFound"}
        THEN log[i].ret = "StopIteration" /\ log[i].to = log[i].from
        ELSE StepAsOrdered(i)

C5_Witness ==
    /\ Len(log) >= 3
    /\ log[1].ret = "Bib"
    /\ log[2].exc = "TruncatedRecord" /\ Len(file) - log[2].from >= 5
    /\ log[2].chunk.bytes[Len(log[2].chunk.bytes)] # END_OF_RECORD
    /\ log[3].ret = "StopIteration"

-----------------------------------------------------------------------------
(* Claims about Bib.orders and Bib.sort_orders *)

\* the places of the 960 fields that item_fields does not select, in order
RECURSIVE OrderFieldsFrom(_)
OrderFieldsFrom(i) ==
    IF i > Len(fields) THEN <<>>
    ELSE (IF /\ fields[i].tag = "960"
             /\ \A k \in 1..Len(item_fields(fields, library).value) :
                    item_fields(fields, library).value[k] # i
          THEN <<i>> ELSE <<>>) \o OrderFieldsFrom(i + 1)

\* C6: Bib.orders returns one Order for every 960 field that is not an item
\* field, in document order, for either library.
C6_OneOrderPer960 ==
    call.op = "orders" =>
        /\ Len(out.value) = Len(OrderFieldsFrom(1))
        /\ \A k \in 1..Len(out.value) : out.value[k].field = OrderFieldsFrom(1)[k]

\* C7: the vendor note of an Order built by Bib.orders is the $h of the field
\* right after its 960 when that field has the tag 961, and none when the field
\* after it has another tag or the 960 is the last field; no error is raised.
C7_VendorNoteFromNextField ==
    call.op = "orders" =>
        /\ out.raised = "None"
        /\ \A k \in 1..Len(out.value) :
               LET i == out.value[k].field
               IN  /\ fields[i].tag = "960"
                   /\ venNotes(fields, out.value[k]) =
                          IF i < Len(fields) /\ fields[i + 1].tag = "961"
                          THEN Get(fields[i + 1], "h")
                          ELSE None

C7_Witness ==
    /\ call.op = "orders" /\ Len(out.value) = 2 /\ Len(fields) = 3
    /\ venNotes(fields, out.value[1]) = Some(<<"e", ",", "b", "i", "o">>)
    /\ out.value[2].field = 3
    /\ venNotes(fields, out.value[2]) = None

\* C8: sort_orders raises BookopsMarcError and returns no list for every
\* argument other than the str "ascending" and the str "descending".
C8_OnlyTwoSortModes ==
    call.op = "sort_orders" /\ call.arg \notin {StrVal(Ascending), StrVal(Descending)} =>
        out.raised = "BookopsMarcError" /\ out.value = <<>>

\* C9: sort_orders("ascending") returns the sequence Bib.orders returns,
\* sort_orders("descending") returns that sequence reversed, and the call leaves
\* the field list of the record as it was.
C9_SortIsIdentityOrReverse ==
    [][ call'.op = "sort_orders" /\ call'.arg \in {StrVal(Ascending), StrVal(Descending)} =>
            /\ out'.raised = "None"
            /\ call'.arg = StrVal(Ascending) => out'.value = orders(fields, library).value
            /\ call'.arg = StrVal(Descending) =>
                   /\ Len(out'.value) = Len(orders(fields, library).value)
                   /\ \A k \in 1..Len(out'.value) :
                          out'.value[k] =
                              orders(fields, library).value[Len(out'.value) + 1 - k]
            /\ fields' = fields ]_vars

C9_Witness ==
    /\ call.op = "sort_orders" /\ call.arg = StrVal(Descending)
    /\ Len(out.value) = 2
    /\ out.value[1].field > out.value[2].field

-----------------------------------------------------------------------------
(* Claims about OclcNumber *)

\* the values C10 names as invalid, read on the lower-cased and trimmed string
InvalidAsStated(value) ==
    \/ value = IntVal(0)
    \/ /\ value.type = "str"
       /\ LET t == RStrip(LStrip(Lower(value.s)))
              prefixed == \E prefix \in {Ocm, Ocn, On, OCoLC} : StartsWith(t, prefix)
              After(prefix) == SubSeq(t, Len(prefix) + 1, Len(t))
          IN  \/ value.s = <<>>
              \/ ~prefixed /\ ~(IsNumeric(t) /\ \E i \in 1..Len(t) : t[i] # "0")
              \/ StartsWith(t, Ocm) /\ ~(IsNumeric(After(Ocm)) /\ Len(After(Ocm)) = 8)
              \/ StartsWith(t, Ocn) /\ ~(IsNumeric(After(Ocn)) /\ Len(After(Ocn)) = 9)
              \/ StartsWith(t, On) /\ ~(IsNumeric(After(On)) /\ Len(After(On)) >= 10)

\* C10: constructing an OclcNumber from an invalid value (empty, zero, no prefix
\* and not a positive integer in digits, or ocm/ocn/on not followed by a digit
\* string of the length the prefix asks for) raises ValueError, and is_valid
\* returns false for it.
C10_InvalidRejected ==
    InvalidAsStated(oclc_arg) =>
        /\ oclc.op = "init" => oclc.raised = "ValueError"
        /\ oclc.op = "is_valid" => oclc.valid = FALSE

-----------------------------------------------------------------------------
(* Claims about the prefixed and unprefixed forms of an OCLC number *)

\* a valid unprefixed digit string: digits only, value > 0
ValidDigits(value) ==
    value.type = "str" /\ IsNumeric(value.s) /\ IsPositive(value.s)

\* C11, as stated: for every valid unprefixed digit string d,
\* OclcNumber(OclcNumber(d).with_prefix).without_prefix returns d itself.
C11_RoundTripReturnsInput ==
    (oclc.op = "round_trip" /\ ValidDigits(oclc_arg))
        => (oclc.raised = "None" /\ oclc.value = oclc_arg.s)

\* C11, amended: for every valid unprefixed digit string d, the round trip
\* OclcNumber(OclcNumber(d).with_prefix).without_prefix returns d without its
\* leading zeros, which is d itself when d has no leading zero.
C11_RoundTripReturnsNumber ==
    (oclc.op = "round_trip" /\ ValidDigits(oclc_arg))
        => /\ oclc.raised = "None"
           /\ oclc.value = IntDigits(oclc_arg.s)
           /\ (Head(oclc_arg.s) # "0" => oclc.value = oclc_arg.s)

C11_Witness ==
    /\ oclc.op = "round_trip" /\ ValidDigits(oclc_arg)
    /\ Head(oclc_arg.s) = "0"
    /\ oclc.raised = "None"
    /\ oclc.value = IntDigits(oclc_arg.s) /\ oclc.value # oclc_arg.s

\* the prefixed form of the number written by the digits d: "ocm" and the
\* number zero-padded to 8 digits when it has 1 to 8 digits, "ocn" and the
\* number when it has 9, "on" and the number when it has 10 or more
PrefixedForm(d) ==
    LET number == IntDigits(d)
    IN  IF Len(number) <= 8 THEN Ocm \o Repeat("0", 8 - Len(number)) \o number
        ELSE IF Len(number) = 9 THEN Ocn \o number
        ELSE On \o number

\* C12: OclcNumber.with_prefix and local_values.oclcNo_with_prefix both return,
\* for every valid unprefixed input, the prefix selected by the number of
\* digits: ocm + 8 zero-padded digits, ocn + 9 digits, on + 10 or more digits.
C12_PrefixByDigitCount ==
    (oclc.op \in {"with_prefix", "oclcNo_with_prefix"} /\ ValidDigits(oclc_arg))
        => (oclc.raised = "None" /\ oclc.value = PrefixedForm(oclc_arg.s))

\* C13: on an OclcNumber constructed without error, has_prefix, with_prefix
\* and without_prefix return a value and never raise.
C13_PropertiesNeverRaise ==
    oclc.op \in {"has_prefix", "with_prefix", "without_prefix"}
        => oclc.raised = "None"

-----------------------------------------------------------------------------
(* Claims about the Dewey normalizer and shortener *)

\* a decimal numeral: digits with at most one point among them
IsDecimal(s) ==
    /\ \E i \in 1..Len(s) : IsDigit(s[i])
    /\ \A i \in 1..Len(s) : IsDigit(s[i]) \/ s[i] = "."
    /\ Cardinality({i \in 1..Len(s) : s[i] = "."}) <= 1

PointAt(s) == IF \E i \in 1..Len(s) : s[i] = "."
              THEN CHOOSE i \in 1..Len(s) : s[i] = "."
              ELSE Len(s) + 1

\* what stands before the decimal point, and what stands after it
IntegerPart(s) == SubSeq(s, 1, PointAt(s) - 1)
FractionPart(s) == SubSeq(s, PointAt(s) + 1, Len(s))

RECURSIVE WithoutTrailingZeros(_)
WithoutTrailingZeros(s) ==
    IF s # <<>> /\ s[Len(s)] = "0"
    THEN WithoutTrailingZeros(SubSeq(s, 1, Len(s) - 1))
    ELSE s

\* two decimal numerals that denote the same number
SameNumber(a, b) ==
    /\ IntDigits(<<"0">> \o IntegerPart(a)) = IntDigits(<<"0">> \o IntegerPart(b))
    /\ WithoutTrailingZeros(FractionPart(a)) = WithoutTrailingZeros(FractionPart(b))

\* C17: for every x for which normalize_dewey(x) is not none,
\* normalize_dewey(normalize_dewey(x)) equals normalize_dewey(x).
C17_NormalizeIdempotent ==
    dewey_out.op = "normalize_dewey_again" => dewey_out.value = normalize_dewey(dewey_arg)

\* C18: for every input whose cleaned form is a decimal numeral, normalize_dewey
\* returns a string with the same integer part that denotes the same number:
\* only zeros beyond the decimal point are stripped.
C18_OnlyFractionZerosStripped ==
    (/\ dewey_out.op = "normalize_dewey" /\ dewey_arg.type = "str"
     /\ IsDecimal(Cleaned(dewey_arg.s)))
        => /\ ~dewey_out.value.isNone
           /\ IntegerPart(dewey_out.value.s) = IntegerPart(Cleaned(dewey_arg.s))
           /\ SameNumber(dewey_out.value.s, Cleaned(dewey_arg.s))

\* C19: for every normalized Dewey string and every N >= 0, shorten_dewey
\* returns a leading part of the input with at most N digits after the decimal
\* point and with the integer part of the input.
C19_AtMostNDigitsAfterPoint ==
    (dewey_out.op = "shorten_dewey" /\ IsDecimal(normalize_dewey(dewey_arg).s))
        => /\ StartsWith(normalize_dewey(dewey_arg).s, dewey_out.value.s)
           /\ Len(FractionPart(dewey_out.value.s)) <= dewey_out.digits
           /\ IntegerPart(dewey_out.value.s) = IntegerPart(normalize_dewey(dewey_arg).s)

-----------------------------------------------------------------------------
(* Claims about the catalogue properties of Bib *)

\* a subject field the claim keeps: supported tag, and second indicator "0",
\* or "7" with a $2 in the supported thesauri
KeptAsStated(f) ==
    /\ f.tag \in SubjectTags
    /\ f.tag \in SUPPORTED_SUBJECT_TAGS
    /\ \/ f.ind2 = "0"
       \/ /\ f.ind2 = "7"
          /\ \E k \in 1..Len(f.subs) : f.subs[k][1] = "2"
          /\ RStrip(LStrip(Get(f, "2").s)) \in SUPPORTED_THESAURI

\* C14: after remove_unsupported_subjects the subject fields left are exactly
\* the subject fields of the record before the call that have a supported tag
\* and second indicator "0", or "7" with $2 in the supported thesauri.
C14_SupportedSubjectsLeft ==
    [][ call'.op = "remove_unsupported_subjects" =>
            SelectSeq(fields', LAMBDA f : f.tag \in SubjectTags)
                = SelectSeq(fields, KeptAsStated) ]_vars

C14_Witness ==
    /\ call.op = "remove_unsupported_subjects"
    /\ Len(fields) = 2
    /\ fields[1].tag = "650" /\ fields[1].ind2 = "7"
    /\ fields[2].tag = "650" /\ fields[2].ind2 = "0"

\* C15: every value of the mapping Bib.oclc_nos returns is the canonical
\* unprefixed form of an OCLC number, digits only and the same for every way
\* of writing the number; the keys are only "001", "035" and "991"; no error.
C15_CanonicalUnprefixedValues ==
    call.op = "oclc_nos" =>
        /\ out.raised = "None"
        /\ \A pair \in out.value :
              /\ pair[1] \in {"001", "035", "991"}
              /\ IsNumeric(pair[2])
              /\ IntDigits(pair[2]) = pair[2]

\* a valid OCLC number: digits of a positive number, or ocm and 8 digits, ocn
\* and 9 digits, on and 10 or more digits, (ocolc) and digits
HoldsOclcNumber(t) ==
    LET l == Lower(t)
        After(prefix) == SubSeq(l, Len(prefix) + 1, Len(l))
    IN  \/ IsNumeric(l) /\ IsPositive(l)
        \/ StartsWith(l, Ocm) /\ IsNumeric(After(Ocm)) /\ Len(After(Ocm)) = 8
        \/ StartsWith(l, Ocn) /\ IsNumeric(After(Ocn)) /\ Len(After(Ocn)) = 9
        \/ StartsWith(l, On) /\ IsNumeric(After(On)) /\ Len(After(On)) >= 10
        \/ StartsWith(l, OCoLC) /\ IsNumeric(After(OCoLC))

\* the digits of a valid OCLC number
NumberOf(t) == IntDigits(SelectSeq(t, IsDigit))

\* C16: normalize_oclc_control_number writes the prefixed form of the number
\* into 001 for "bpl" and the unprefixed form for "nypl"; a record whose 001 is
\* missing or holds no valid OCLC number is left as it was; with another
\* library BookopsMarcError is raised and the record is left as it was.
C16_ControlNumberNormalized ==
    [][ call'.op = "normalize_oclc_control_number" =>
            LET f == First(fields, "001")
                held == f # 0 /\ HoldsOclcNumber(RStrip(LStrip(fields[f].data)))
            IN  IF library \notin {BPL, NYPL}
                THEN out'.raised = "BookopsMarcError" /\ fields' = fields
                ELSE IF ~held
                THEN out'.raised = "None" /\ fields' = fields
                ELSE /\ out'.raised = "None"
                     /\ Len(fields') = Len(fields)
                     /\ \A i \in 1..Len(fields) : i # f => fields'[i] = fields[i]
                     /\ library = BPL =>
                            fields'[f].data = PrefixedForm(NumberOf(fields[f].data))
                     /\ library = NYPL =>
                            /\ IsNumeric(fields'[f].data)
                            /\ IntDigits(fields'[f].data) = NumberOf(fields[f].data)
      ]_vars

\* the class mark cut to at most n digits after the period
LimitedTo(mark, kept, n) ==
    LET fraction == FractionPart(mark)
        upto == IF Len(fraction) < n THEN Len(fraction) ELSE n
    IN  /\ IntegerPart(kept) = IntegerPart(mark)
        /\ Len(FractionPart(kept)) <= n
        /\ WithoutTrailingZeros(FractionPart(kept))
               = WithoutTrailingZeros(SubSeq(fraction, 1, upto))

\* C20: dewey_shortened is none whenever dewey is none; it keeps at most 2
\* digits after the period for an NYPL record whose orders have juvenile
\* audience codes, and up to 4 for a BPL record and for an NYPL record with
\* an adult or young-adult audience code.
C20_TwoDigitsOnlyForNyplJuvenile ==
    call.op = "dewey_shortened" =>
        LET mark == dewey(fields)
            codes == Audns(fields, orders(fields, library).value)
            juvenile == /\ library = NYPL /\ codes # <<>>
                        /\ \A k \in 1..Len(codes) : codes[k] = <<"j">>
            adult == \/ library = BPL
                     \/ library = NYPL /\ \E k \in 1..Len(codes) : codes[k] # <<"j">>
        IN  IF mark.isNone THEN out.value.isNone
            ELSE /\ ~out.value.isNone
                 /\ juvenile => LimitedTo(mark.s, out.value.s, 2)
                 /\ adult => LimitedTo(mark.s, out.value.s, 4)

-----------------------------------------------------------------------------
(* Claims about location codes *)

\* the code holds a parenthesized span: a "(" with a ")" somewhere after it
HasSpan(code) ==
    \E i \in 1..Len(code), j \in 1..Len(code) : i < j /\ code[i] = "(" /\ code[j] = ")"

\* result is code with one contiguous piece deleted; the piece, when there
\* is one, runs from a "(" to a ")"
OneSpanDeleted(code, result) ==
    \E i \in 0..Len(code), j \in 0..Len(code) :
        /\ i <= j
        /\ result = SubSeq(code, 1, i) \o SubSeq(code, j + 1, Len(code))
        /\ i < j => code[i + 1] = "(" /\ code[j] = ")"

\* C21: the location-code normalizer removes exactly one parenthesized span:
\* its result is the code with one contiguous piece deleted, it is never
\* longer than the code, and a code without a parenthesized span is returned
\* unchanged.
C21_OneSpanRemoved ==
    call.op = "normalize_location_code" =>
        /\ Len(out.value) <= Len(call.arg.s)
        /\ OneSpanDeleted(call.arg.s, out.value)
        /\ ~HasSpan(call.arg.s) => out.value = call.arg.s

-----------------------------------------------------------------------------
(* Claims about the construction of Bib, Order and Item *)

BuildsBib == call.op \in {"Bib", "pymarc_record_to_local_bib"}

\* C22 as stated: constructing a Bib, directly or from a pymarc record, with
\* a library other than "bpl" and "nypl" fails and produces no Bib.
C22_UnrecognizedLibraryRejected ==
    BuildsBib /\ ~Recognized(library) => out.raised # "None"

\* C22: a Bib is constructed with any library string, recognized or not:
\* Bib(library=...) keeps the string in lower case, and
\* pymarc_record_to_local_bib keeps the leader and the fields of the record
\* and the library exactly as passed, None included; it fails only for a
\* record that is not a pymarc Record.
C22_AnyLibraryAccepted ==
    /\ call.op = "Bib" /\ library.type = "str" =>
           /\ out.raised = "None"
           /\ out.value.library = StrVal(Lower(library.s))
    /\ call.op = "pymarc_record_to_local_bib" =>
           IF call.arg = StrVal(<<"R", "e", "c", "o", "r", "d">>)
           THEN /\ out.raised = "None"
                /\ out.value.library = library
                /\ out.value.fields = fields
                /\ out.value.leader = bib_leader
           ELSE out.raised = "TypeError"

C22_Witness ==
    /\ call.op = "Bib"
    /\ library = StrVal(<<"q", "p", "l">>)
    /\ out.raised = "None"
    /\ out.value.library = library

\* the 960 field the last construction was given, and whether it lacks $z
OrderField == fields[call.arg.n]

NoOrderNumber ==
    /\ call.op \in {"Order", "order.Order"}
    /\ OrderField.tag = "960"
    /\ ~HasCode(OrderField, "z")

\* C23 as stated: constructing an Order from a 960 field without $z fails,
\* and no Order with an absent order id is produced.
C23_MissingOrderNumberFails ==
    NoOrderNumber => out.raised # "None"

\* C23: the Order of models.py, the one Bib.orders builds, is constructed
\* from a 960 field without $z and its oid is None; only the Order of
\* order.py fails for such a field, with KeyError once its library argument
\* is accepted.
C23_OrderWithoutNumberHasNoOid ==
    /\ NoOrderNumber /\ call.op = "Order" =>
           /\ out.raised = "None"
           /\ out.value.oid = [raised |-> "None", value |-> None]
    /\ NoOrderNumber /\ call.op = "order.Order" =>
           /\ out.raised \in {"TypeError", "ValueError", "KeyError"}
           /\ Recognized(library) => out.raised = "KeyError"

C23_Witness ==
    /\ NoOrderNumber
    /\ call.op = "Order"
    /\ out.raised = "None"
    /\ out.value.oid.value = None

\* the subfield codes of an item field that hold one value: barcode, call
\* number, price, location, status
NonRepeatable == {"i", "a", "p", "l", "s"}

Duplicated(field, code) ==
    \E j \in 1..Len(field.subs), k \in 1..Len(field.subs) :
        j < k /\ field.subs[j][1] = code /\ field.subs[k][1] = code

\* C24: constructing an Item from a field in which a non-repeatable subfield
\* code occurs more than once fails; the first of the duplicated values is
\* never projected silently.
C24_DuplicateSubfieldFails ==
    /\ call.op = "Item"
    /\ \E code \in NonRepeatable : Duplicated(fields[call.arg.n], code)
    => out.raised # "None"

-----------------------------------------------------------------------------
(* Claims about the error slot, the termination and the framing of the reader *)

\* step i read from the source: its chunk is what lies between the read
\* positions it started and ended at
ReadsSource(i) ==
    /\ ~log[i].chunk.isNone
    /\ log[i].chunk.bytes = SubSeq(file, log[i].from + 1, log[i].to)

\* the chunk of the step was handed to Bib, which raised
ParseFailure(e) == e.parsed /\ e.ret = "None" /\ e.exc # "None"

\* C25: the error slot describes the most recent step only: a step that reads
\* from the source and yields a Bib or finds the source exhausted leaves the
\* slot empty; the step after a parse failure reads from the source, so a Bib
\* after a parse failure, and the end of the iteration after a parse failure,
\* leave the slot empty.
C25_ErrorSlotOfLastStep ==
    /\ \A i \in 1..Len(log) :
           /\ ReadsSource(i) /\ log[i].ret # "None" => log[i].exc = "None"
           /\ i > 1 /\ ParseFailure(log[i - 1]) =>
                  /\ ReadsSource(i)
                  /\ log[i].ret = "StopIteration" => log[i].from = Len(file)
    /\ log # <<>> /\ ReadsSource(Len(log)) /\ log[Len(log)].ret # "None" =>
           current_exception = "None"

C25_Witness ==
    /\ Len(log) = 4
    /\ ParseFailure(log[1])
    /\ log[2].ret = "Bib" /\ log[2].exc = "None"
    /\ ParseFailure(log[3])
    /\ log[4].ret = "StopIteration" /\ log[4].from = Len(file)
    /\ current_exception = "None"

-----------------------------------------------------------------------------
(* Claims about the fields behind Bib.orders and Bib.items *)

\* the places of the fields Bib.items builds its Items from
ItemPlaces ==
    {item_fields(fields, library).value[k] :
         k \in 1..Len(item_fields(fields, library).value)}

\* C26: no field is behind both an Order and an Item; for library "bpl" a 960
\* field that item_fields selects yields no Order and a 960 field it does not
\* select yields one; for any other library no 960 is an item field and every
\* 960 yields an Order.
C26_OrdersAndItemsDisjoint ==
    call.op = "orders" =>
        LET OrderPlaces == {out.value[k].field : k \in 1..Len(out.value)}
        IN  /\ OrderPlaces \cap ItemPlaces = {}
            /\ \A i \in 1..Len(fields) :
                   fields[i].tag = "960" =>
                       /\ library # BPL => i \notin ItemPlaces
                       /\ i \notin ItemPlaces => i \in OrderPlaces

-----------------------------------------------------------------------------
(* Claims about what remove_unsupported_subjects leaves alone *)

\* kept is rest with some subject fields taken out: every other field is
\* still there and the fields are in the order they had
RECURSIVE OnlySubjectsTakenOut(_, _)
OnlySubjectsTakenOut(kept, rest) ==
    IF rest = <<>> THEN kept = <<>>
    ELSE \/ /\ kept # <<>> /\ Head(kept) = Head(rest)
            /\ OnlySubjectsTakenOut(Tail(kept), Tail(rest))
         \/ /\ Head(rest).tag \in SubjectTags
            /\ OnlySubjectsTakenOut(kept, Tail(rest))

\* C27: remove_unsupported_subjects changes nothing but the subject fields it
\* removes: every non-subject field stays, the fields left keep their order,
\* the leader and the library are unchanged, and a second call right after
\* the first removes nothing more.
C27_OnlySubjectFieldsRemoved ==
    [][ call'.op = "remove_unsupported_subjects" =>
            /\ OnlySubjectsTakenOut(fields', fields)
            /\ bib_leader' = bib_leader
            /\ library' = library
            /\ call.op = "remove_unsupported_subjects" => fields' = fields ]_vars

C27_Witness ==
    /\ call.op = "remove_unsupported_subjects"
    /\ Len(fields) = 2
    /\ fields[1].tag = "245"
    /\ fields[2].tag = "650" /\ fields[2].ind2 = "7"
    /\ bib_leader = StubLeader

\* every step so far that did not signal end of stream consumed at least one
\* byte, and every step after end of stream was signalled signalled it again
\* and yielded no record
StepsConsumeOrStop ==
    /\ \A i \in 1..Len(log) : log[i].ret # "StopIteration" => log[i].to > log[i].from
    /\ \A i \in 1..Len(log) : \A j \in i..Len(log) :
           log[i].ret = "StopIteration" =>
               log[j].ret = "StopIteration" /\ log[j].bib = NoBib

\* C28: iterating the reader over a finite source terminates: every step that
\* does not signal end of stream consumes at least one byte, so end of stream
\* is signalled eventually, and the steps made after it was signalled signal
\* it again and yield no record.
C28_IterationTerminates ==
    <>(StepsConsumeOrStop /\ NumStops(log) >= 2)

C28_Witness ==
    /\ Len(log) = 4
    /\ log[1].ret = "Bib" /\ log[2].ret = "None"
    /\ log[3].ret = "StopIteration" /\ log[4].ret = "StopIteration"
    /\ log[3].from = Len(file)

\* C29: whenever the five bytes at the start of a step parse as the integer L
\* and the step passes the framing checks, the chunk handed to Bib is exactly
\* L bytes long and the read position has advanced by exactly L bytes.
C29_ChunkIsLBytes ==
    \A i \in 1..Len(log) :
        log[i].parsed =>
            LET L == PyInt(SubSeq(file, log[i].from + 1, log[i].from + 5)).val
            IN  /\ Len(log[i].chunk.bytes) = L
                /\ log[i].to = log[i].from + L

-----------------------------------------------------------------------------
(* Claims about the value setter of OclcNumber *)

\* C30: an assignment of an invalid value to an OclcNumber raises ValueError
\* and leaves the object unchanged: value, has_prefix, with_prefix and
\* without_prefix are what they were before, and the value the object holds
\* is one is_valid accepts.
C30_FailedAssignmentChangesNothing ==
    [][ oclc'.op = "set" /\ ~is_valid(oclc'.arg) =>
            /\ oclc'.raised = "ValueError"
            /\ oclc'.value = oclc.value
            /\ has_prefix(oclc'.value) = has_prefix(oclc.value)
            /\ with_prefix(oclc'.value) = with_prefix(oclc.value)
            /\ without_prefix(oclc'.value) = without_prefix(oclc.value)
            /\ is_valid(StrVal(oclc'.value)) ]_vars

====
